---- MODULE Spec2Model ----
(***************************************************************************)
(* Model of the deterministic text-processing layer of timmy-agent:        *)
(*   - core/utils.py           micro_responses, format_structured_response *)
(*   - core/processors/response.py   ResponseProcessor                     *)
(*   - core/agent.py           TimmyAgent._detect_and_format_structured_.. *)
(*   - core/processors/target.py     TargetCapture, SmartTargetProcessor   *)
(*                                                                         *)
(* A Python str is modelled as a sequence of one-character strings, so     *)
(* that len(), slicing, str.strip(), str.split() and the regular           *)
(* expressions of the source are computed character by character.          *)
(***************************************************************************)
EXTENDS Naturals, Integers, Sequences, FiniteSets, TLC

VARIABLES
    pc,             \* position of the run: which operation has been applied
    text,           \* micro_responses: the text argument
    min_chars,      \* micro_responses: min_chars
    max_chars,      \* micro_responses: max_chars
    units,          \* micro_responses: the returned list
    raw_response,   \* the LLM's reply handed to the response formatting
    formatted,      \* process_response: the FormattedResponse returned
    agent_messages, \* _detect_and_format_structured_content: the list returned
    target_config,  \* the TargetCapture of the tenant: its list of TargetField
    message,        \* extract_from_message: the user's message
    extracted,      \* extract_from_message: the dict returned
    error,          \* the exception extract_from_message ended with, or "none"
    user_state,     \* the dict the extracted fields of a conversation are merged into
    turns,          \* number of messages handled in the conversation
    _configs,       \* TargetConfigManager: the TargetCapture loaded per tenant
    _SESSIONS,      \* core/utils.py: the module-level dict of session states
    alone,          \* per session key, the store the calls on that key alone produce
    call,           \* the last call made: operation, key, result
    threads,        \* the turns running concurrently: position and local variables
    turn_log,       \* per session key: calls completed, and whether turns overlapped
    _components,    \* ComponentRegistry: component key -> ComponentInfo
    _tenant_components, \* ComponentRegistry: tenant id -> list of component keys
    _type_components    \* ComponentRegistry: ComponentType -> list of component keys

segVars == <<text, min_chars, max_chars, units>>
respVars == <<raw_response, formatted, agent_messages>>
targetVars == <<target_config, message, extracted, error, user_state, turns, _configs>>
sessionVars == <<_SESSIONS, alone, call, threads, turn_log>>
registryVars == <<_components, _tenant_components, _type_components>>
vars == <<pc, segVars, respVars, targetVars, sessionVars, registryVars>>

(***************************************************************************)
(* Bounds of the model.                                                    *)
(***************************************************************************)
MaxTextLen == 6
MaxCharsBound == 3
MaxLines == 4
LongLineRepeats == 51
MaxMsgLen == 4
MaxTurns == 4

(***************************************************************************)
(* Python str primitives.                                                  *)
(***************************************************************************)
\* str.isspace() / regex \s on the characters the model uses
IsSpace(c) == c \in {" ", "\n", "\t"}

\* regex \d
IsDigit(c) == c \in {"0", "1", "2", "3", "4", "5", "6", "7", "8", "9"}

SetMin(S) == CHOOSE x \in S : \A y \in S : x <= y
SetMax(S) == CHOOSE x \in S : \A y \in S : x >= y

\* s[:n]
Take(s, n) == SubSeq(s, 1, IF n < Len(s) THEN n ELSE Len(s))
\* s[n:]
Drop(s, n) == SubSeq(s, n + 1, Len(s))

\* str.strip()
Strip(s) ==
    LET keep == {i \in 1..Len(s) : ~IsSpace(s[i])}
    IN IF keep = {} THEN <<>> ELSE SubSeq(s, SetMin(keep), SetMax(keep))

\* 1-based index just past the run of whitespace that starts at i
RECURSIVE SkipSpaces(_, _)
SkipSpaces(s, i) ==
    IF i <= Len(s) /\ IsSpace(s[i]) THEN SkipSpaces(s, i + 1) ELSE i

\* str.split(): the whitespace-delimited tokens
RECURSIVE Words(_)
Words(s) ==
    LET t == Drop(s, SkipSpaces(s, 1) - 1)
        stops == {i \in 1..Len(t) : IsSpace(t[i])}
    IN IF t = <<>> THEN <<>>
       ELSE IF stops = {} THEN <<t>>
       ELSE <<Take(t, SetMin(stops) - 1)>> \o Words(Drop(t, SetMin(stops)))

\* " ".join(parts)
RECURSIVE JoinSpace(_)
JoinSpace(parts) ==
    IF parts = <<>> THEN <<>>
    ELSE IF Len(parts) = 1 THEN parts[1]
    ELSE parts[1] \o <<" ">> \o JoinSpace(Tail(parts))

\* re.split(r'(?<=[.!?])\s+', s)
RECURSIVE SplitSentences(_)
SplitSentences(s) ==
    LET cuts == {i \in 2..Len(s) : IsSpace(s[i]) /\ s[i - 1] \in {".", "!", "?"}}
    IN IF cuts = {} THEN <<s>>
       ELSE LET i == SetMin(cuts)
            IN <<Take(s, i - 1)>> \o SplitSentences(Drop(s, SkipSpaces(s, i) - 1))

\* [m.end() for m in re.finditer(r'[,:;]\s+', s)], in order of occurrence
PausePoints(s) ==
    {SkipSpaces(s, i + 1) - 1 :
        i \in {j \in 1..(Len(s) - 1) : s[j] \in {",", ":", ";"} /\ IsSpace(s[j + 1])}}

UpperLetters ==
    <<"A", "B", "C", "D", "E", "F", "G", "H", "I", "J", "K", "L", "M",
      "N", "O", "P", "Q", "R", "S", "T", "U", "V", "W", "X", "Y", "Z">>
LowerLetters ==
    <<"a", "b", "c", "d", "e", "f", "g", "h", "i", "j", "k", "l", "m",
      "n", "o", "p", "q", "r", "s", "t", "u", "v", "w", "x", "y", "z">>

\* [A-Z] under re.IGNORECASE
IsLetter(c) == \E k \in 1..26 : c = UpperLetters[k] \/ c = LowerLetters[k]

\* str.lower(), on the letters the model uses
LowerChar(c) ==
    IF \E k \in 1..26 : c = UpperLetters[k]
    THEN LowerLetters[CHOOSE k \in 1..26 : c = UpperLetters[k]]
    ELSE c
Lower(s) == [i \in 1..Len(s) |-> LowerChar(s[i])]

\* the conjunction patterns of _break_by_natural_pauses_only, without the \s
conjunctions ==
    << <<"e">>, <<"m", "a", "s">>, <<"p", "o", "r", "é", "m">>,
       <<"e", "n", "t", "ã", "o">>, <<"q", "u", "e">> >>

\* [m.start() for m in re.finditer(r'\s' + w + r'\s', s, re.IGNORECASE)] from 1-based index
\* `from` on: matches do not overlap, the scan resumes after the closing \s
RECURSIVE ConjStarts(_, _, _)
ConjStarts(s, w, from) ==
    LET hits == {i \in from..(Len(s) - Len(w) - 1) :
                    /\ IsSpace(s[i])
                    /\ Lower(SubSeq(s, i + 1, i + Len(w))) = w
                    /\ IsSpace(s[i + Len(w) + 1])}
    IN IF hits = {} THEN <<>>
       ELSE LET i == SetMin(hits)
            IN <<i - 1>> \o ConjStarts(s, w, i + Len(w) + 2)

\* conjunction_points: the matches of each pattern, pattern after pattern
RECURSIVE ConjunctionPoints(_, _)
ConjunctionPoints(s, k) ==
    IF k > Len(conjunctions) THEN <<>>
    ELSE ConjStarts(s, conjunctions[k], 1) \o ConjunctionPoints(s, k + 1)

\* best_break = None; for point in points: if point <= max_chars: best_break
\* = point.  The caller only tests `if best_break:`, which None and 0 both
\* fail, so None is returned as 0.
LastWithin(points, maxc) ==
    LET ok == {k \in 1..Len(points) : points[k] <= maxc}
    IN IF ok = {} THEN 0 ELSE points[SetMax(ok)]

(***************************************************************************)
(* core/utils.py: micro_responses and its helpers.                         *)
(***************************************************************************)

\* mutant of PackWords: the bound is tested on the block before the word is
\* added, not on the block with the word
RECURSIVE PackWords_TestBeforeAdd(_, _, _, _, _)
PackWords_TestBeforeAdd(words, k, responses, current, maxc) ==
    IF k > Len(words)
    THEN IF current # <<>> THEN Append(responses, Strip(current)) ELSE responses
    ELSE LET word == words[k]
             test_text == IF current # <<>>
                          THEN Strip(current \o <<" ">> \o word) ELSE word
         IN IF Len(current) < maxc
            THEN PackWords_TestBeforeAdd(words, k + 1, responses, test_text, maxc)
            ELSE PackWords_TestBeforeAdd(words, k + 1,
                                Append(responses, Strip(current)), word, maxc)

\* mutant of PackWords: the block is flushed without the `if current:` test
RECURSIVE PackWords_FlushEmpty(_, _, _, _, _)
PackWords_FlushEmpty(words, k, responses, current, maxc) ==
    IF k > Len(words)
    THEN Append(responses, Strip(current))
    ELSE LET word == words[k]
             test_text == IF current # <<>>
                          THEN Strip(current \o <<" ">> \o word) ELSE word
         IN IF Len(test_text) <= maxc
            THEN PackWords_FlushEmpty(words, k + 1, responses, test_text, maxc)
            ELSE PackWords_FlushEmpty(words, k + 1,
                                Append(responses, Strip(current)), word, maxc)

\* the word loop of _break_by_natural_pauses_only (lines 332-351)
RECURSIVE PackWords(_, _, _, _, _)
PackWords(words, k, responses, current, maxc) ==
    IF k > Len(words)
    THEN IF current # <<>> THEN Append(responses, Strip(current)) ELSE responses
    ELSE LET word == words[k]
             test_text == IF current # <<>>
                          THEN Strip(current \o <<" ">> \o word) ELSE word
         IN IF Len(test_text) <= maxc
            THEN PackWords(words, k + 1, responses, test_text, maxc)
            ELSE IF current # <<>>
                 THEN PackWords(words, k + 1,
                                Append(responses, Strip(current)), word, maxc)
                 ELSE PackWords(words, k + 1, Append(responses, word), <<>>, maxc)

\* mutant of SplitAt: the second part starts one character late
SplitAt_SkipChar(s, best_break) ==
    <<Strip(Take(s, best_break)), Strip(Drop(s, best_break + 1))>>

\* part1 = text[:best_break].strip(); part2 = text[best_break:].strip()
SplitAt(s, best_break) ==
    <<Strip(Take(s, best_break)), Strip(Drop(s, best_break))>>

RECURSIVE _break_by_natural_pauses_only(_, _)
_break_by_natural_pauses_only(s, maxc) ==
    LET pauses == PausePoints(s)
        pauseOk == {p \in pauses : p <= maxc}
        conj == LastWithin(ConjunctionPoints(s, 1), maxc)
        words == Words(s)
        packed == PackWords(words, 1, <<>>, <<>>, maxc)
    IN IF Len(s) <= maxc THEN <<s>>
       ELSE IF pauseOk # {}
       THEN LET parts == SplitAt(s, SetMax(pauseOk))
            IN _break_by_natural_pauses_only(parts[1], maxc)
               \o _break_by_natural_pauses_only(parts[2], maxc)
       ELSE IF conj # 0
       THEN LET parts == SplitAt(s, conj)
            IN _break_by_natural_pauses_only(parts[1], maxc)
               \o _break_by_natural_pauses_only(parts[2], maxc)
       ELSE IF Len(words) <= 1 THEN <<s>>
       ELSE IF packed # <<>> THEN packed ELSE <<s>>

\* the sentence loop of _intelligent_sentence_break (lines 231-259)
RECURSIVE GroupSentencesInner(_, _, _, _, _)
GroupSentencesInner(sentences, k, responses, current, maxc) ==
    IF k > Len(sentences)
    THEN IF current # <<>> THEN Append(responses, Strip(current)) ELSE responses
    ELSE LET sentence == sentences[k]
             test_text == IF current # <<>>
                          THEN Strip(current \o <<" ">> \o sentence) ELSE sentence
             flushed == IF current # <<>>
                        THEN Append(responses, Strip(current)) ELSE responses
         IN IF Len(sentence) > maxc
            THEN GroupSentencesInner(sentences, k + 1,
                    flushed \o _break_by_natural_pauses_only(sentence, maxc),
                    <<>>, maxc)
            ELSE IF Len(test_text) <= maxc
            THEN GroupSentencesInner(sentences, k + 1, responses, test_text, maxc)
            ELSE GroupSentencesInner(sentences, k + 1, flushed, sentence, maxc)

\* s cut in pieces of n characters
RECURSIVE Chunks(_, _)
Chunks(s, n) == IF Len(s) <= n THEN <<s>> ELSE <<Take(s, n)>> \o Chunks(Drop(s, n), n)

\* mutant of _intelligent_sentence_break: a long sentence is cut every
\* max_chars characters, inside words
_intelligent_sentence_break_ByChars(s, minc, maxc) == Chunks(s, maxc)

_intelligent_sentence_break(s, minc, maxc) ==
    LET sentences == SplitSentences(s)
        responses == GroupSentencesInner(sentences, 1, <<>>, <<>>, maxc)
    IN IF Len(s) <= maxc THEN <<s>>
       ELSE IF Len(sentences) > 1 /\ responses # <<>> THEN responses
       ELSE _break_by_natural_pauses_only(s, maxc)

\* the sentence loop of micro_responses (lines 164-198)
RECURSIVE PackSentences(_, _, _, _, _, _)
PackSentences(sentences, k, responses, current, minc, maxc) ==
    IF k > Len(sentences)
    THEN IF current # <<>> THEN Append(responses, current) ELSE responses
    ELSE LET sentence == sentences[k]
             test_text == IF current # <<>>
                          THEN Strip(current \o <<" ">> \o sentence) ELSE sentence
         IN IF Len(sentence) > maxc
            THEN PackSentences(sentences, k + 1,
                    (IF current # <<>>
                     THEN Append(responses, Strip(current)) ELSE responses)
                    \o _intelligent_sentence_break(sentence, minc, maxc),
                    <<>>, minc, maxc)
            ELSE IF Len(test_text) <= maxc
            THEN IF Len(test_text) >= minc
                 THEN PackSentences(sentences, k + 1,
                                    Append(responses, test_text), <<>>, minc, maxc)
                 ELSE PackSentences(sentences, k + 1,
                                    responses, test_text, minc, maxc)
            ELSE PackSentences(sentences, k + 1,
                    (IF current # <<>> THEN Append(responses, current) ELSE responses),
                    sentence, minc, maxc)

\* mutant of micro_responses: a short text is segmented like a long one
micro_responses_NoShortcut(s, minc, maxc) ==
    LET t == Strip(s)
        sentences == SplitSentences(t)
        responses == PackSentences(sentences, 1, <<>>, <<>>, minc, maxc)
    IN IF t = <<>> THEN << <<>> >>
       ELSE IF Len(sentences) > 1 /\ responses # <<>> THEN responses
       ELSE _intelligent_sentence_break(t, minc, maxc)

micro_responses(s, minc, maxc) ==
    LET t == Strip(s)
        sentences == SplitSentences(t)
        responses == PackSentences(sentences, 1, <<>>, <<>>, minc, maxc)
    IN IF t = <<>> THEN << <<>> >>
       ELSE IF Len(t) <= maxc THEN <<t>>
       ELSE IF Len(sentences) > 1 /\ responses # <<>> THEN responses
       ELSE _intelligent_sentence_break(t, minc, maxc)

(***************************************************************************)
(* Regular expressions of the structured-content code, character by        *)
(* character.                                                              *)
(***************************************************************************)

\* characters outside Latin-1, named by their code point: each is one
\* character of a modelled str
Bullet == "U+2022"
CheckMark == "U+2705"

\* s has w at 1-based index i
HasAt(s, i, w) ==
    i >= 1 /\ i + Len(w) - 1 <= Len(s) /\ SubSeq(s, i, i + Len(w) - 1) = w

\* 1-based index just past the run of digits that starts at i (regex \d+)
RECURSIVE DigitsEnd(_, _)
DigitsEnd(s, i) ==
    IF i <= Len(s) /\ IsDigit(s[i]) THEN DigitsEnd(s, i + 1) ELSE i

\* index of the first "*" at or after i, Len(s) + 1 when there is none
NextStar(s, i) ==
    LET stars == {j \in i..Len(s) : s[j] = "*"}
    IN IF stars = {} THEN Len(s) + 1 ELSE SetMin(stars)

\* \*\*([^*]+)\*\*: matched at index m: the index of the closing "**:" or 0
TitleEnd(s, m) ==
    LET e == NextStar(s, m + 2)
    IN IF HasAt(s, m, <<"*", "*">>) /\ e > m + 2 /\ HasAt(s, e, <<"*", "*", ":">>)
       THEN e ELSE 0

NoMatch == [ok |-> FALSE, number |-> <<>>, title |-> <<>>, details |-> <<>>]

\* \*\*([^*]+)\*\*:\s*(.*) matched at index m of a line; groups stripped
TitleAt(l, m, number) ==
    LET e == TitleEnd(l, m)
    IN IF e = 0 THEN NoMatch
       ELSE [ok |-> TRUE, number |-> number,
             title |-> Strip(SubSeq(l, m + 2, e - 1)),
             details |-> Strip(Drop(l, e + 2))]

\* re.match(r'^(\d+)\.\s*\*\*([^*]+)\*\*:\s*(.*)', line)
numbered_match(l) ==
    LET d == DigitsEnd(l, 1)
    IN IF d > 1 /\ HasAt(l, d, <<".">>)
       THEN TitleAt(l, SkipSpaces(l, d + 1), Take(l, d - 1))
       ELSE NoMatch

\* re.match(r'^(\d+)\.\s*([^:]+):\s*(.*)', line): \s*([^:]+) needs one
\* character or more before the first colon (the group may take a blank the
\* \s* gives back); the stripped group is the stripped text before the colon
simple_numbered_match(l) ==
    LET d == DigitsEnd(l, 1)
        r == Drop(l, d)
        colons == {j \in 1..Len(r) : r[j] = ":"}
    IN IF d > 1 /\ HasAt(l, d, <<".">>) /\ colons # {} /\ SetMin(colons) >= 2
       THEN [ok |-> TRUE, number |-> Take(l, d - 1),
             title |-> Strip(Take(r, SetMin(colons) - 1)),
             details |-> Strip(Drop(r, SetMin(colons)))]
       ELSE NoMatch

\* re.match(r'^\*\*([^*]+)\*\*:\s*(.*)', line)
title_match(l) == TitleAt(l, 1, <<>>)

\* re.match(r'^[\-\*\(U+2022)]\s*\*\*([^*]+)\*\*:\s*(.*)', line)
bullet_match(l) ==
    IF Len(l) >= 1 /\ l[1] \in {"-", "*", Bullet}
    THEN TitleAt(l, SkipSpaces(l, 2), <<>>)
    ELSE NoMatch

\* the 1-based indices at which a line of s starts (regex ^ with re.MULTILINE)
LineStarts(s) == {i \in 1..Len(s) : i = 1 \/ s[i - 1] = "\n"}

\* len(re.findall(r'^\d+\.\s+', text, re.MULTILINE))
CountNumbered(s) ==
    Cardinality({i \in LineStarts(s) :
        LET d == DigitsEnd(s, i)
        IN d > i /\ HasAt(s, d, <<".">>) /\ d + 1 <= Len(s) /\ IsSpace(s[d + 1])})

\* len(re.findall(r'^[\-\*\(U+2022)]\s+', text, re.MULTILINE))
CountBullets(s) ==
    Cardinality({i \in LineStarts(s) :
        s[i] \in {"-", "*", Bullet} /\ i + 1 <= Len(s) /\ IsSpace(s[i + 1])})

\* len(re.findall(r'\*\*[^*]+\*\*:', text)) scanning from index `from`:
\* leftmost matches that do not overlap
RECURSIVE CountTitles(_, _)
CountTitles(s, from) ==
    LET hits == {i \in from..Len(s) : TitleEnd(s, i) # 0}
    IN IF hits = {} THEN 0
       ELSE 1 + CountTitles(s, TitleEnd(s, SetMin(hits)) + 3)

\* text.split('\n')
RECURSIVE SplitLines(_)
SplitLines(s) ==
    LET nl == {i \in 1..Len(s) : s[i] = "\n"}
    IN IF nl = {} THEN <<s>>
       ELSE <<Take(s, SetMin(nl) - 1)>> \o SplitLines(Drop(s, SetMin(nl)))

Max2(a, b) == IF a >= b THEN a ELSE b

(***************************************************************************)
(* core/processors/response.py: ResponseProcessor.                         *)
(***************************************************************************)

\* _analyze_content_structure; complexity_score is kept in tenths (the sums
\* of 0.3 * item_count, 0.4 and 0.3 compare with 0.7 and 0.5 in floating
\* point exactly as the tenths compare with 7 and 5)
_analyze_content_structure(s) ==
    LET numbered_items == CountNumbered(s)
        bullet_items == CountBullets(s)
        title_items == CountTitles(s, 1)
        item_count == Max2(Max2(numbered_items, bullet_items), title_items)
    IN [has_numbered_list |-> numbered_items > 0,
        has_bullet_points |-> bullet_items > 0,
        has_titles |-> title_items > 0,
        item_count |-> item_count,
        complexity_score |->
              (IF item_count > 0 THEN item_count * 3 ELSE 0)
            + (IF title_items > 0 THEN 4 ELSE 0)
            + (IF Len(SplitLines(s)) > 3 THEN 3 ELSE 0)]

\* mutant of _choose_formatting_strategy: the score threshold is inclusive
_choose_formatting_strategy_Inclusive(content_analysis, maxc, text_length) ==
    IF content_analysis.item_count >= 3 \/ content_analysis.complexity_score >= 7
    THEN "structured"
    ELSE IF text_length > maxc /\ content_analysis.complexity_score < 5
    THEN "micro"
    ELSE IF text_length <= maxc THEN "single"
    ELSE "micro"

_choose_formatting_strategy(content_analysis, maxc, text_length) ==
    IF content_analysis.item_count >= 3 \/ content_analysis.complexity_score > 7
    THEN "structured"
    ELSE IF text_length > maxc /\ content_analysis.complexity_score < 5
    THEN "micro"
    ELSE IF text_length <= maxc THEN "single"
    ELSE "micro"

\* one step of the line loop of _parse_structured_content (lines 309-372) and,
\* without bullet_match, of _detect_and_format_structured_content (agent.py
\* lines 214-271).  st.current is the open item as a list of zero or one item
\* (current_item); an item is a dict whose keys are item.keys; the agent's
\* items carry no "type", which only _format_single_item reads
FirstMatch(nm, sm, tm, bm) ==
    IF nm.ok THEN [m |-> nm, type |-> "numbered_title"]
    ELSE IF sm.ok THEN [m |-> sm, type |-> "numbered_simple"]
    ELSE IF tm.ok THEN [m |-> tm, type |-> "title_only"]
    ELSE [m |-> bm, type |-> "bullet_title"]

\* mutant of ParseMatched: a line that opens no item, met after an item,
\* closes the item and starts the outro
ParseMatched_OutroAfterItems(st, line, hit) ==
    IF line = <<>> THEN st
    ELSE IF hit.m.ok
    THEN [st EXCEPT !.items = st.items \o st.current,
                    !.section = "items",
                    !.current = << [keys |-> IF hit.m.number # <<>>
                                             THEN {"number", "title", "details"}
                                             ELSE {"title", "details"},
                                    number |-> hit.m.number,
                                    title |-> hit.m.title,
                                    details |-> hit.m.details,
                                    type |-> hit.type] >>]
    ELSE IF st.items = <<>> /\ st.current = <<>>
    THEN [st EXCEPT !.intro_lines = Append(st.intro_lines, line)]
    ELSE [st EXCEPT !.items = st.items \o st.current,
                    !.current = <<>>,
                    !.section = "outro",
                    !.outro_lines = Append(st.outro_lines, line)]

\* the if/elif chain over the line's matches; line is already stripped
ParseMatched(st, line, hit) ==
    IF line = <<>> THEN st
    ELSE IF hit.m.ok
    THEN [st EXCEPT !.items = st.items \o st.current,
                    !.section = "items",
                    !.current = << [keys |-> IF hit.m.number # <<>>
                                             THEN {"number", "title", "details"}
                                             ELSE {"title", "details"},
                                    number |-> hit.m.number,
                                    title |-> hit.m.title,
                                    details |-> hit.m.details,
                                    type |-> hit.type] >>]
    ELSE IF st.section = "intro" /\ st.items = <<>>
    THEN [st EXCEPT !.intro_lines = Append(st.intro_lines, line)]
    ELSE IF st.section = "items" /\ st.current # <<>>
    THEN [st EXCEPT !.current[1].details =
             IF st.current[1].details # <<>>
             THEN st.current[1].details \o <<" ">> \o line ELSE line]
    ELSE IF st.items # <<>>
    THEN [st EXCEPT !.section = "outro",
                    !.outro_lines = Append(st.outro_lines, line)]
    ELSE [st EXCEPT !.intro_lines = Append(st.intro_lines, line)]

ParseStripped(st, line, withBullets) ==
    ParseMatched(st, line,
                 FirstMatch(numbered_match(line), simple_numbered_match(line),
                            title_match(line),
                            IF withBullets THEN bullet_match(line) ELSE NoMatch))

ParseLine(st, rawline, withBullets) == ParseStripped(st, Strip(rawline), withBullets)

RECURSIVE ParseLines(_, _, _, _)
ParseLines(st, lines, k, withBullets) ==
    IF k > Len(lines) THEN st
    ELSE ParseLines(ParseLine(st, lines[k], withBullets), lines, k + 1, withBullets)

ParseStart ==
    [section |-> "intro", current |-> <<>>, items |-> <<>>,
     intro_lines |-> <<>>, outro_lines |-> <<>>]

\* _parse_structured_content: (intro_text, items, outro_text)
ParseResult(st) ==
    [intro |-> Strip(JoinSpace(st.intro_lines)),
     items |-> st.items \o st.current,
     outro |-> Strip(JoinSpace(st.outro_lines))]

_parse_structured_content(s) ==
    ParseResult(ParseLines(ParseStart, SplitLines(Strip(s)), 1, TRUE))

\* mutant of _format_single_item: every item is rendered as its details only
_format_single_item_DetailsOnly(item) == item.details

\* _format_single_item
_format_single_item(item) ==
    IF item.type = "numbered_title"
    THEN item.number \o <<".", " ", "*", "*">> \o item.title
         \o <<"*", "*", ":", " ">> \o item.details
    ELSE IF item.type = "numbered_simple"
    THEN item.number \o <<".", " ">> \o item.title \o <<":", " ">> \o item.details
    ELSE IF item.type = "title_only"
    THEN <<"*", "*">> \o item.title \o <<"*", "*", ":", " ">> \o item.details
    ELSE IF item.type = "bullet_title"
    THEN <<Bullet, " ", "*", "*">> \o item.title \o <<"*", "*", ":", " ">> \o item.details
    ELSE item.details

\* _break_by_words
_break_by_words(s, maxc) ==
    LET words == Words(s)
        groups == PackWords(words, 1, <<>>, <<>>, maxc)
    IN IF Len(words) <= 1 THEN <<s>>
       ELSE IF groups # <<>> THEN groups ELSE <<s>>

\* _break_by_natural_pauses of the ResponseProcessor: the pause must lie in
\* [min_chars, max_chars]; no conjunction tier
RECURSIVE _break_by_natural_pauses(_, _, _)
_break_by_natural_pauses(s, minc, maxc) ==
    LET ok == {p \in PausePoints(s) : minc <= p /\ p <= maxc}
    IN IF Len(s) <= maxc THEN <<s>>
       ELSE IF ok # {} /\ SetMax(ok) # 0
       THEN LET parts == SplitAt(s, SetMax(ok))
            IN _break_by_natural_pauses(parts[1], minc, maxc)
               \o _break_by_natural_pauses(parts[2], minc, maxc)
       ELSE _break_by_words(s, maxc)

\* the loop of _group_sentences (lines 428-452)
RECURSIVE GroupSentencesLoop(_, _, _, _, _, _)
GroupSentencesLoop(sentences, k, groups, current_group, minc, maxc) ==
    IF k > Len(sentences)
    THEN IF current_group # <<>>
         THEN Append(groups, Strip(current_group)) ELSE groups
    ELSE LET sentence == sentences[k]
             test_group == IF current_group # <<>>
                           THEN Strip(current_group \o <<" ">> \o sentence)
                           ELSE sentence
             flushed == IF current_group # <<>>
                        THEN Append(groups, Strip(current_group)) ELSE groups
         IN IF Len(sentence) > maxc
            THEN GroupSentencesLoop(sentences, k + 1,
                    flushed \o _break_by_natural_pauses(sentence, minc, maxc),
                    <<>>, minc, maxc)
            ELSE IF Len(test_group) <= maxc
            THEN GroupSentencesLoop(sentences, k + 1, groups, test_group, minc, maxc)
            ELSE GroupSentencesLoop(sentences, k + 1, flushed, sentence, minc, maxc)

\* _group_sentences.  `return groups if groups else [text]` names an
\* undefined variable, but groups is never empty for a non-empty list of
\* sentences (checked by GroupsNeverEmpty)
_group_sentences(sentences, minc, maxc) ==
    GroupSentencesLoop(sentences, 1, <<>>, <<>>, minc, maxc)

\* _break_text_intelligently
_break_text_intelligently(s, minc, maxc) ==
    LET sentences == SplitSentences(s)
    IN IF Len(s) <= maxc THEN <<s>>
       ELSE IF Len(sentences) > 1 THEN _group_sentences(sentences, minc, maxc)
       ELSE _break_by_natural_pauses(s, minc, maxc)

\* the characters emoji_pattern removes, among those the model uses
IsEmoji(c) == c \in {CheckMark}

\* mutant of _apply_basic_formatting: the emoji characters are kept
_apply_basic_formatting_KeepEmoji(s) == Strip(s)

\* _apply_basic_formatting with use_emojis = False (the default)
_apply_basic_formatting(s) ==
    Strip(SelectSeq(s, LAMBDA c : ~IsEmoji(c)))

\* mutant of AssembleStructured: the items go through the text breaker like
\* the introduction
AssembleStructured_BreakItems(intro_parts, items, outro_parts, minc, maxc) ==
    LET RECURSIVE Each(_)
        Each(k) == IF k > Len(items) THEN <<>>
                   ELSE _break_text_intelligently(_format_single_item(items[k]),
                                                  minc, maxc) \o Each(k + 1)
    IN intro_parts \o Each(1) \o outro_parts

\* the message list of _apply_structured_formatting (lines 219-239)
AssembleStructured(intro_parts, items, outro_parts, minc, maxc) ==
    intro_parts
    \o [k \in 1..Len(items) |-> _format_single_item(items[k])]
    \o outro_parts

\* _apply_structured_formatting (no tenant formatter is registered:
\* _load_formatters leaves self._formatters empty)
ProcessedResponse(messages, formatting) ==
    [messages |-> messages, total_parts |-> Len(messages),
     formatting_applied |-> formatting]

StructuredFromParse(p, minc, maxc) ==
    ProcessedResponse(
        AssembleStructured(
            IF p.intro # <<>> THEN _break_text_intelligently(p.intro, minc, maxc)
            ELSE <<>>,
            p.items,
            IF p.outro # <<>> THEN _break_text_intelligently(p.outro, minc, maxc)
            ELSE <<>>,
            minc, maxc),
        "structured")

_apply_structured_formatting(s, minc, maxc) ==
    StructuredFromParse(_parse_structured_content(s), minc, maxc)

\* _apply_micro_formatting
_apply_micro_formatting(s, minc, maxc) ==
    ProcessedResponse(_break_text_intelligently(s, minc, maxc), "micro")

\* _apply_single_formatting
_apply_single_formatting(s) ==
    [messages |-> <<_apply_basic_formatting(s)>>, total_parts |-> 1,
     formatting_applied |-> "single"]

\* process_response
process_response(s, minc, maxc) ==
    LET strategy == _choose_formatting_strategy(
                        _analyze_content_structure(s), maxc, Len(s))
    IN IF Strip(s) = <<>>
       THEN [messages |-> << <<>> >>, total_parts |-> 0,
             formatting_applied |-> "empty"]
       ELSE IF strategy = "structured" THEN _apply_structured_formatting(s, minc, maxc)
       ELSE IF strategy = "micro" THEN _apply_micro_formatting(s, minc, maxc)
       ELSE _apply_single_formatting(s)

(***************************************************************************)
(* core/utils.py: format_structured_response.                              *)
(***************************************************************************)
DefaultMinChars == 120
DefaultMaxChars == 200

\* the item text of format_structured_response (lines 104-112); str(item) of
\* the last branch is not modelled: every item given has "details"
FormatItem(item) ==
    IF "number" \in item.keys /\ "title" \in item.keys
    THEN item.number \o <<".", " ", "*", "*">> \o item.title
         \o <<"*", "*", ":", " ">> \o item.details
    ELSE IF "title" \in item.keys
    THEN <<"*", "*">> \o item.title \o <<"*", "*", ":", " ">> \o item.details
    ELSE item.details

\* format_structured_response
format_structured_response(intro_text, items, outro_text) ==
    (IF Strip(intro_text) # <<>>
     THEN micro_responses(intro_text, DefaultMinChars, DefaultMaxChars)
     ELSE <<>>)
    \o [k \in 1..Len(items) |-> FormatItem(items[k])]
    \o (IF Strip(outro_text) # <<>>
        THEN micro_responses(outro_text, DefaultMinChars, DefaultMaxChars)
        ELSE <<>>)

(***************************************************************************)
(* core/agent.py: TimmyAgent._detect_and_format_structured_content.        *)
(***************************************************************************)
\* w in s
Contains(s, w) == \E i \in 1..(Len(s) - Len(w) + 1) : HasAt(s, i, w)

\* index past `\d+\.\s*` matched at i, or 0
NumberDotEnd(s, i) ==
    LET d == DigitsEnd(s, i)
    IN IF d > i /\ HasAt(s, d, <<".">>) THEN SkipSpaces(s, d + 1) ELSE 0

\* any(re.search(pattern, response_text, re.MULTILINE | re.IGNORECASE)
\*     for pattern in structured_patterns)
has_structured_content(s) ==
    \/ \E i \in 1..Len(s) :                       \* \d+\.\s*\*\*.*?\*\*:
          LET m == NumberDotEnd(s, i)
          IN /\ m # 0
             /\ HasAt(s, m, <<"*", "*">>)
             /\ \E j \in (m + 2)..Len(s) :
                   /\ HasAt(s, j, <<"*", "*", ":">>)
                   /\ \A k \in (m + 2)..(j - 1) : s[k] # "\n"
    \/ \E i \in 1..Len(s) :                       \* \d+\.\s*[A-Z][^:]*:
          LET m == NumberDotEnd(s, i)
          IN /\ m # 0
             /\ m <= Len(s) /\ IsLetter(s[m])
             /\ \E j \in (m + 1)..Len(s) : s[j] = ":"
    \/ \E i \in 1..Len(s) : TitleEnd(s, i) # 0    \* \*\*[^*]+\*\*:
    \/ \E i \in 1..Len(s) :                       \* (?:\d+\.\s*){2,}
          LET m == NumberDotEnd(s, i)
          IN m # 0 /\ NumberDotEnd(s, m) # 0

\* str(item).lower() contains w: the dict's keys and punctuation hold none of
\* the words looked for, so w is in one of the values
ItemMentions(item, w) ==
    \/ Contains(Lower(item.number), w)
    \/ Contains(Lower(item.title), w)
    \/ Contains(Lower(item.details), w)

IntroPlans ==
    <<"C", "l", "a", "r", "o", "!", " ", "A", "q", "u", "i", " ", "e", "s",
      "t", "ã", "o", " ", "o", "s", " ", "p", "l", "a", "n", "o", "s", " ",
      "d", "i", "s", "p", "o", "n", "í", "v", "e", "i", "s", ":">>
OutroPlans ==
    <<"S", "e", " ", "p", "r", "e", "c", "i", "s", "a", "r", " ", "d", "e",
      " ", "m", "a", "i", "s", " ", "d", "e", "t", "a", "l", "h", "e", "s",
      " ", "s", "o", "b", "r", "e", " ", "a", "l", "g", "u", "m", " ", "p",
      "l", "a", "n", "o", ",", " ", "é", " ", "s", "ó", " ", "a", "v", "i",
      "s", "a", "r", "!">>
IntroDoctors ==
    <<"N", "o", "s", "s", "a", " ", "e", "q", "u", "i", "p", "e", " ", "m",
      "é", "d", "i", "c", "a", " ", "t", "e", "m", " ", "e", "x", "c", "e",
      "l", "e", "n", "t", "e", "s", " ", "p", "r", "o", "f", "i", "s", "s",
      "i", "o", "n", "a", "i", "s", ":">>
OutroDoctors ==
    <<"P", "o", "s", "s", "o", " ", "a", "j", "u", "d", "a", "r", " ", "c",
      "o", "m", " ", "a", "g", "e", "n", "d", "a", "m", "e", "n", "t", "o",
      " ", "o", "u", " ", "m", "a", "i", "s", " ", "i", "n", "f", "o", "r",
      "m", "a", "ç", "õ", "e", "s", " ", "s", "o", "b", "r", "e", " ", "a",
      "l", "g", "u", "m", " ", "m", "é", "d", "i", "c", "o", " ", "e", "s",
      "p", "e", "c", "í", "f", "i", "c", "o", "?">>
IntroGeneric ==
    <<"A", "q", "u", "i", " ", "e", "s", "t", "ã", "o", " ", "a", "s", " ",
      "i", "n", "f", "o", "r", "m", "a", "ç", "õ", "e", "s", ":">>
OutroGeneric ==
    <<"P", "r", "e", "c", "i", "s", "a", " ", "d", "e", " ", "m", "a", "i",
      "s", " ", "a", "l", "g", "u", "m", "a", " ", "c", "o", "i", "s", "a",
      "?">>

\* the introduction, items and closing handed to format_structured_response
\* (agent.py lines 277-291)
SectionTexts(st, items) ==
    LET intro_text == JoinSpace(st.intro_lines)
        outro_text == JoinSpace(st.outro_lines)
    IN IF intro_text = <<>> /\ items # <<>>
       THEN IF \E k \in 1..Len(items) : ItemMentions(items[k], <<"p", "l", "a", "n", "o">>)
            THEN [intro |-> IntroPlans, items |-> items, outro |-> OutroPlans]
            ELSE IF \E k \in 1..Len(items) :
                       \/ ItemMentions(items[k], <<"m", "é", "d", "i", "c", "o">>)
                       \/ ItemMentions(items[k], <<"d", "o", "u", "t", "o", "r">>)
            THEN [intro |-> IntroDoctors, items |-> items, outro |-> OutroDoctors]
            ELSE [intro |-> IntroGeneric, items |-> items, outro |-> OutroGeneric]
       ELSE [intro |-> intro_text, items |-> items, outro |-> outro_text]

\* the parse of _detect_and_format_structured_content (agent.py lines 207-291)
AgentParsed(st) == SectionTexts(st, st.items \o st.current)

AgentParse(s) == AgentParsed(ParseLines(ParseStart, SplitLines(Strip(s)), 1, FALSE))

FormatParsed(p) == format_structured_response(p.intro, p.items, p.outro)

_detect_and_format_structured_content(s) ==
    IF ~has_structured_content(s)
    THEN micro_responses(s, DefaultMinChars, DefaultMaxChars)
    ELSE FormatParsed(AgentParse(s))

(***************************************************************************)
(* core/processors/target.py.  A TargetField is a record; a dict is a      *)
(* function from its keys; an Optional[str] is a list of zero (None) or    *)
(* one string.                                                             *)
(***************************************************************************)
EmptyDict == <<>>

NoneValue == <<>>
Some(v) == <<v>>

\* d[k] = v
DictSet(d, k, v) == [x \in DOMAIN d \cup {k} |-> IF x = k THEN v ELSE d[x]]

\* d.update(other)
DictUpdate(d, other) ==
    [x \in DOMAIN d \cup DOMAIN other |-> IF x \in DOMAIN other THEN other[x] ELSE d[x]]

\* a validation_pattern the tenants' configurations use: \d+
DigitsPattern == <<"\\", "d", "+">>

\* re.match(pattern, value) is not None: the pattern matches a prefix of value
ReMatch(pattern, value) ==
    CASE pattern = DigitsPattern -> value # <<>> /\ IsDigit(value[1])

\* re.match(r'^[a-zA-Z0-9._%+-]+@[a-zA-Z0-9.-]+\.[a-zA-Z]{2,}$', value)
EmailMatch(value) ==
    LET n == IF value # <<>> /\ value[Len(value)] = "\n" THEN Len(value) - 1
             ELSE Len(value)
    IN \E at \in 2..n : \E dot \in (at + 2)..(n - 2) :
          /\ value[at] = "@"
          /\ value[dot] = "."
          /\ \A i \in 1..(at - 1) :
                IsLetter(value[i]) \/ IsDigit(value[i])
                    \/ value[i] \in {".", "_", "%", "+", "-"}
          /\ \A i \in (at + 1)..(dot - 1) :
                IsLetter(value[i]) \/ IsDigit(value[i]) \/ value[i] \in {".", "-"}
          /\ \A i \in (dot + 1)..n : IsLetter(value[i])

\* TargetField.__post_init__ accepts the field
FieldAccepted(field) == ~(field.field_type = "choice" /\ field.choices = <<>>)

\* TargetCapture.is_complete
is_complete(config, captured_data) ==
    \A k \in 1..Len(config) :
        config[k].required =>
            /\ config[k].field_name \in DOMAIN captured_data
            /\ captured_data[config[k].field_name] # <<>>

\* the choice branch of _simple_pattern_extract: the first choice, in list
\* order, whose lower case is in the lower-cased message
RECURSIVE FirstChoiceIn(_, _, _)
FirstChoiceIn(msg, choices, k) ==
    IF k > Len(choices) THEN NoneValue
    ELSE IF Contains(Lower(msg), Lower(choices[k])) THEN Some(choices[k])
    ELSE FirstChoiceIn(msg, choices, k + 1)

\* regex [^.!?;]
IsValueChar(c) == c \notin {".", "!", "?", ";"}

\* 1-based index just past the run of [^.!?;] that starts at i
RECURSIVE ValueEnd(_, _)
ValueEnd(s, i) ==
    IF i <= Len(s) /\ IsValueChar(s[i]) THEN ValueEnd(s, i + 1) ELSE i

\* group 1 of  trigger\s*[:=]?\s*([^.!?;]+)  matched with the trigger at p,
\* as a list of zero (no match at p) or one string.  e is the index past the
\* trigger.  The greedy match takes the blanks, one of : and =, the blanks
\* and the longest run of value characters; when that run is empty the
\* matcher backtracks and the group is the last character it gave back
GroupAt(s, e) ==
    LET a_end == SkipSpaces(s, e)
        has_sep == a_end <= Len(s) /\ s[a_end] \in {":", "="}
        b_start == IF has_sep THEN a_end + 1 ELSE a_end
        b_end == SkipSpaces(s, b_start)
        g_end == ValueEnd(s, b_end)
    IN IF g_end > b_end THEN Some(SubSeq(s, b_end, g_end - 1))
       ELSE IF b_end > b_start THEN Some(<<s[b_end - 1]>>)
       ELSE IF has_sep THEN Some(<<s[a_end]>>)
       ELSE IF a_end > e THEN Some(<<s[a_end - 1]>>)
       ELSE NoneValue

\* re.search(pattern, message, re.IGNORECASE): the match at the leftmost
\* position where the trigger, ignoring case, is followed by a group
RECURSIVE SearchFrom(_, _, _)
SearchFrom(s, trigger, p) ==
    IF p + Len(trigger) - 1 > Len(s) THEN NoneValue
    ELSE IF HasAt(Lower(s), p, Lower(trigger)) /\ GroupAt(s, p + Len(trigger)) # NoneValue
    THEN GroupAt(s, p + Len(trigger))
    ELSE SearchFrom(s, trigger, p + 1)

\* match.group(1).strip() if match else None
StripGroup(group) == IF group = NoneValue THEN NoneValue ELSE Some(Strip(group[1]))

\* mutant of _simple_pattern_extract: the text pattern is tried for every
\* field type that is not choice
_simple_pattern_extract_AnyType(msg, field, trigger) ==
    IF field.field_type = "choice" THEN FirstChoiceIn(msg, field.choices, 1)
    ELSE StripGroup(SearchFrom(msg, trigger, 1))

\* SmartTargetProcessor._simple_pattern_extract
_simple_pattern_extract(msg, field, trigger) ==
    IF field.field_type = "choice" THEN FirstChoiceIn(msg, field.choices, 1)
    ELSE IF field.field_type = "text" THEN StripGroup(SearchFrom(msg, trigger, 1))
    ELSE NoneValue

\* SmartTargetProcessor._extract_field_value: the first trigger, in list
\* order, found in the message decides
RECURSIVE ExtractByTrigger(_, _, _)
ExtractByTrigger(msg, field, k) ==
    IF k > Len(field.prompt_triggers) THEN NoneValue
    ELSE IF Contains(Lower(msg), Lower(field.prompt_triggers[k]))
    THEN _simple_pattern_extract(msg, field, field.prompt_triggers[k])
    ELSE ExtractByTrigger(msg, field, k + 1)

_extract_field_value(msg, field) == ExtractByTrigger(msg, field, 1)

\* value in field.choices
InChoices(value, choices) == \E k \in 1..Len(choices) : choices[k] = value

\* SmartTargetProcessor.validate_field: "valid" for (True, ""), "invalid"
\* for (False, message).  In the phone branch the name re is a local of the
\* function (it is imported in two other branches) that has not been bound:
\* the call re.sub raises UnboundLocalError
validate_field(field, value) ==
    IF field.field_type = "choice"
    THEN (IF InChoices(value, field.choices) THEN "valid" ELSE "invalid")
    ELSE IF field.field_type = "email"
    THEN (IF EmailMatch(value) THEN "valid" ELSE "invalid")
    ELSE IF field.field_type = "phone"
    THEN "UnboundLocalError"
    ELSE IF field.validation_pattern # <<>>
    THEN (IF ReMatch(field.validation_pattern, value) THEN "valid" ELSE "invalid")
    ELSE "valid"

\* if value: (neither None nor "")
Truthy(opt) == opt # NoneValue /\ opt[1] # <<>>

\* one pass of the loop of extract_from_message over a field whose value is
\* opt and whose validation gave verdict; st is the dict built so far and the
\* exception raised, if any
ExtractStep(st, field, opt, verdict) ==
    IF st.error # "none" \/ ~Truthy(opt) THEN st
    ELSE IF verdict = "valid"
    THEN [st EXCEPT !.extracted = DictSet(st.extracted, field.field_name, opt[1])]
    ELSE IF verdict = "invalid" THEN st
    ELSE [st EXCEPT !.error = verdict]

\* validate_field is called for a truthy value only
Verdict(field, opt) == IF Truthy(opt) THEN validate_field(field, opt[1]) ELSE "none"

ExtractField(st, field, opt) == ExtractStep(st, field, opt, Verdict(field, opt))

RECURSIVE ExtractLoop(_, _, _, _)
ExtractLoop(st, msg, config, k) ==
    IF k > Len(config) THEN st
    ELSE ExtractLoop(ExtractField(st, config[k], _extract_field_value(msg, config[k])),
                     msg, config, k + 1)

\* mutant of extract_from_message: the values are stored in lower case
RECURSIVE ExtractLoopLower(_, _, _, _)
ExtractLoopLower(st, msg, config, k) ==
    IF k > Len(config) THEN [st EXCEPT !.extracted = [x \in DOMAIN @ |-> Lower(@[x])]]
    ELSE ExtractLoopLower(ExtractField(st, config[k], _extract_field_value(msg, config[k])),
                          msg, config, k + 1)

extract_from_message_StoresLower(msg, config) ==
    ExtractLoopLower([extracted |-> EmptyDict, error |-> "none"], msg, config, 1)

\* SmartTargetProcessor.extract_from_message: the dict returned and the
\* exception it ended with ("none": it returned)
extract_from_message(msg, config) ==
    ExtractLoop([extracted |-> EmptyDict, error |-> "none"], msg, config, 1)

\* mutant of MergeExtracted: the state is replaced by the last extraction
MergeExtracted_Replace(state, extracted_info) == extracted_info

\* `if target_data.get("extracted"): conversation_state.update(...)`
\* (BaseStrategy.update_context does the same update)
MergeExtracted(state, extracted_info) ==
    IF extracted_info # EmptyDict THEN DictUpdate(state, extracted_info) ELSE state

(***************************************************************************)
(* Runs.  Each specification draws the input of one pure function in its   *)
(* initial state and applies the function in one step; the variables of    *)
(* the other functions stay idle.                                          *)
(***************************************************************************)
SeqsUpTo(S, n) == UNION {[1..k -> S] : k \in 0..n}

NoResponse == [messages |-> <<>>, total_parts |-> 0, formatting_applied |-> "none"]

IdleSeg == text = <<>> /\ units = <<>>
IdleResp == raw_response = <<>> /\ formatted = NoResponse /\ agent_messages = <<>>
IdleTarget ==
    /\ target_config = <<>> /\ message = <<>> /\ extracted = EmptyDict
    /\ error = "none" /\ user_state = EmptyDict /\ turns = 0
    /\ _configs = EmptyDict
\* core/extensions/registry.py: the members of the enum ComponentType
ComponentType == {"STRATEGY", "FORMATTER", "WORKFLOW", "DATABASE", "PROCESSOR"}

\* ComponentRegistry.__init__
IdleRegistry ==
    /\ _components = <<>>
    /\ _tenant_components = <<>>
    /\ _type_components = [component_type \in ComponentType |-> <<>>]

IdleCall == [op |-> "none", key |-> "none", result |-> "none"]
IdleSession ==
    /\ _SESSIONS = EmptyDict /\ alone = EmptyDict /\ call = IdleCall
    /\ threads = <<>> /\ turn_log = <<>>

(***************************************************************************)
(* Segmentation runs: micro_responses applied to every text over a small   *)
(* alphabet (a letter, the conjunction "e", blank, sentence end, pause).   *)
(***************************************************************************)
SegAlphabet == {"a", "e", " ", ".", ","}

InitSeg ==
    /\ pc = "input"
    /\ text \in SeqsUpTo(SegAlphabet, MaxTextLen)
    /\ max_chars \in 1..MaxCharsBound
    /\ min_chars \in 1..max_chars
    /\ units = <<>>
    /\ IdleResp
    /\ IdleTarget
    /\ IdleRegistry
    /\ IdleSession

MicroResponses ==
    /\ pc = "input"
    /\ units' = micro_responses(text, min_chars, max_chars)
    /\ pc' = "segmented"
    /\ UNCHANGED <<registryVars, sessionVars, text, min_chars, max_chars, respVars, targetVars>>

NextSeg == MicroResponses

SpecSeg == InitSeg /\ [][NextSeg]_vars

(***************************************************************************)
(* Response runs: an LLM reply of up to MaxLines lines, each drawn from a  *)
(* pool of line shapes, is formatted by ResponseProcessor.process_response *)
(* or by TimmyAgent._detect_and_format_structured_content.                 *)
(***************************************************************************)

\* lines of the shape `N. **Title**: details`, by their parts
NumberedTitleParts ==
    { [n |-> <<"1">>, t |-> <<"A">>, d |-> <<"x">>],
      [n |-> <<"2">>, t |-> <<"p", "l", "a", "n", "o">>, d |-> <<"y", ",", " ", "z">>],
      [n |-> <<"1", "2">>, t |-> <<"C", " ", "d">>, d |-> <<>>] }

PrefixOf(r) == r.n \o <<".", " ", "*", "*">> \o r.t \o <<"*", "*", ":">>
Render(r) == PrefixOf(r) \o (IF r.d = <<>> THEN <<>> ELSE <<" ">> \o r.d)

NumberedTitleLines == {Render(r) : r \in NumberedTitleParts}

OtherLines ==
    { <<"1", ".", " ", "A", ":", " ", "x">>,                \* 1. A: x
      <<"*", "*", "A", "*", "*", ":", " ", "d", "o", "u", "t", "o", "r">>,
      <<"-", " ", "*", "*", "A", "*", "*", ":", " ", "x">>, \* - **A**: x
      <<"x", " ", "y", ".", " ", "z", ",", " ", "w">>,      \* x y. z, w
      <<>> }                                                \* blank line

LineSamples == NumberedTitleLines \cup OtherLines

RECURSIVE Repeat(_, _)
Repeat(s, n) == IF n = 0 THEN <<>> ELSE s \o Repeat(s, n - 1)

\* an introduction line longer than the 200 characters that
\* format_structured_response allows a unit: short sentences, one after another
LongLine == Repeat(<<"x", "y", ".", " ">>, LongLineRepeats)

\* "\n".join(lines)
RECURSIVE JoinLines(_)
JoinLines(lines) ==
    IF lines = <<>> THEN <<>>
    ELSE IF Len(lines) = 1 THEN lines[1]
    ELSE lines[1] \o <<"\n">> \o JoinLines(Tail(lines))

\* ResponseConfig defaults
ResponseConfigMinChars == 80
ResponseConfigMaxChars == 200

\* tenant configurations (min_chars, max_chars): a tight one and the default
RespConfigs == { <<1, MaxCharsBound>>, <<ResponseConfigMinChars, ResponseConfigMaxChars>> }

InitResp ==
    /\ pc = "reply"
    /\ raw_response \in
          {JoinLines(ls) : ls \in SeqsUpTo(LineSamples, MaxLines)}
          \cup {JoinLines(<<LongLine>> \o ls) : ls \in SeqsUpTo(NumberedTitleLines, 2)}
    /\ \E c \in RespConfigs : min_chars = c[1] /\ max_chars = c[2]
    /\ formatted = NoResponse
    /\ agent_messages = <<>>
    /\ IdleSeg
    /\ IdleTarget
    /\ IdleRegistry
    /\ IdleSession

ProcessResponse ==
    /\ pc = "reply"
    /\ formatted' = process_response(raw_response, min_chars, max_chars)
    /\ pc' = "processed"
    /\ UNCHANGED <<registryVars, sessionVars, segVars, raw_response, agent_messages, targetVars>>

DetectAndFormat ==
    /\ pc = "reply"
    /\ agent_messages' = _detect_and_format_structured_content(raw_response)
    /\ pc' = "agent_formatted"
    /\ UNCHANGED <<registryVars, sessionVars, segVars, raw_response, formatted, targetVars>>

\* the generic micro formatting applied to the reply as it is
ApplyMicroFormatting ==
    /\ pc = "reply"
    /\ formatted' = _apply_micro_formatting(raw_response, min_chars, max_chars)
    /\ pc' = "micro_formatted"
    /\ UNCHANGED <<registryVars, sessionVars, segVars, raw_response, agent_messages, targetVars>>

NextResp == ProcessResponse \/ DetectAndFormat \/ ApplyMicroFormatting

SpecResp == InitResp /\ [][NextResp]_vars

\* segmentation and response runs together
SpecUnits == (InitSeg \/ InitResp) /\ [][NextSeg \/ NextResp]_vars

(***************************************************************************)
(* Target runs.  The tenants' configurations are small: one-letter         *)
(* triggers and choices, so that short messages hold triggers, answers,    *)
(* separators and sentence ends.                                           *)
(***************************************************************************)
Field(name, type, required, choices, pattern, triggers) ==
    [field_name |-> name, field_type |-> type, required |-> required,
     choices |-> choices, validation_pattern |-> pattern,
     prompt_triggers |-> triggers]

\* two required fields (a text and a choice), an optional text with a
\* validation pattern, and one optional field of each other type
SalesConfig ==
    << Field("negocio", "text", TRUE, <<>>, <<>>, << <<"n">> >>),
       Field("porte", "choice", TRUE, << <<"A">>, <<"1">> >>, <<>>, << <<"t">> >>),
       Field("obs", "text", FALSE, <<>>, DigitsPattern, << <<"a">>, <<"n">> >>),
       Field("fone", "phone", FALSE, <<>>, <<>>, << <<"t">> >>),
       Field("email", "email", FALSE, <<>>, <<>>, << <<"n">> >>),
       Field("qtd", "number", FALSE, <<>>, <<>>, << <<"1">> >>) >>

\* one required text with a two-letter trigger and an optional choice whose
\* choices differ in case only from message letters
GenericConfig ==
    << Field("interesse", "text", TRUE, <<>>, <<>>, << <<"t", "n">>, <<"a">> >>),
       Field("plano", "choice", FALSE, << <<"N", "a">>, <<"T">> >>, DigitsPattern,
             << <<"n">>, <<"1">> >>) >>

TargetConfigs == {SalesConfig, GenericConfig}

MsgAlphabet == {"n", "N", "t", "a", "1", ":", " ", "."}

\* one call of extract_from_message on any short message
InitExtract ==
    /\ pc = "utterance"
    /\ target_config \in TargetConfigs
    /\ \A k \in 1..Len(target_config) : FieldAccepted(target_config[k])
    /\ message \in SeqsUpTo(MsgAlphabet, MaxMsgLen)
    /\ extracted = EmptyDict /\ error = "none"
    /\ user_state = EmptyDict /\ turns = 0 /\ _configs = EmptyDict
    /\ IdleRegistry
    /\ IdleSeg /\ min_chars = 0 /\ max_chars = 0
    /\ IdleResp
    /\ IdleSession

ExtractFromMessage ==
    /\ pc = "utterance"
    /\ \E result \in {extract_from_message(message, target_config)} :
          /\ extracted' = result.extracted
          /\ error' = result.error
    /\ pc' = "extracted"
    /\ UNCHANGED <<registryVars, sessionVars, segVars, respVars, target_config, message, user_state, turns, _configs>>

NextExtract == ExtractFromMessage

SpecExtract == InitExtract /\ [][NextExtract]_vars

\* messages of a conversation: answers to one field, to two fields at once,
\* to none, answers that fail validation, and answers in other words
TurnMessages ==
    { <<>>,
      <<"t">>,
      <<"n", " ", "a">>,
      <<"N", ":", "a", ".">>,
      <<"t", "a">>,
      <<"t", "1">>,
      <<"a", "1">>,
      <<"a", ":", "n">>,
      <<"n", "t", " ", "a">>,
      <<"t", "n", " ", "a">>,
      <<"a", " ", "n", "a">>,
      <<"n", "1", ".", "a", "1">> }

\* a conversation: every turn extracts from the user's message and merges
\* the extracted fields into the state of the conversation
InitCapture ==
    /\ pc = "conversation"
    /\ target_config \in TargetConfigs
    /\ \A k \in 1..Len(target_config) : FieldAccepted(target_config[k])
    /\ message = <<>>
    /\ extracted = EmptyDict /\ error = "none"
    /\ user_state = EmptyDict /\ turns = 0 /\ _configs = EmptyDict
    /\ IdleRegistry
    /\ IdleSeg /\ min_chars = 0 /\ max_chars = 0
    /\ IdleResp
    /\ IdleSession

Turn ==
    /\ pc = "conversation"
    /\ turns < MaxTurns
    /\ \E msg \in TurnMessages :
       \E result \in {extract_from_message(msg, target_config)} :
          /\ message' = msg
          /\ extracted' = result.extracted
          /\ error' = result.error
          /\ user_state' = IF result.error = "none"
                           THEN MergeExtracted(user_state, result.extracted)
                           ELSE user_state
    /\ turns' = turns + 1
    /\ UNCHANGED <<registryVars, sessionVars, pc, segVars, respVars, target_config, _configs>>

NextCapture == Turn

SpecCapture == InitCapture /\ [][NextCapture]_vars

(***************************************************************************)
(* Claims about micro_responses, checked under SpecSeg.                    *)
(***************************************************************************)
Oversized(u) == Len(u) > max_chars

\* a unit that is one whitespace-free token
IsSingleToken(u) == u # <<>> /\ \A i \in 1..Len(u) : ~IsSpace(u[i])

\* C1 as stated: every unit has length <= max_chars, except possibly ONE unit
\* that is a single irreducible token longer than max_chars.
C1_AtMostOneOversizedUnit ==
    pc = "segmented" =>
        /\ \A i \in 1..Len(units) : Oversized(units[i]) => IsSingleToken(units[i])
        /\ Cardinality({i \in 1..Len(units) : Oversized(units[i])}) <= 1

\* C1 amended: every unit returned by micro_responses has length <= max_chars
\* or is a single whitespace-free token longer than max_chars; there is one
\* such unit for each oversized token of the input, not at most one.
C1_UnitsBoundedOrSingleToken ==
    pc = "segmented" =>
        \A i \in 1..Len(units) : Oversized(units[i]) => IsSingleToken(units[i])

\* C1 witness: a segmentation of three or more units with an oversized
\* single-token unit beside a unit that fills max_chars exactly.
C1_Witness ==
    /\ pc = "segmented"
    /\ Len(units) >= 3
    /\ \E i \in 1..Len(units) : Oversized(units[i])
    /\ \E j \in 1..Len(units) : Len(units[j]) = max_chars

\* C2: joining the units with single spaces and splitting on whitespace gives
\* exactly the whitespace-delimited word sequence of the input.
C2_ContentPreserved ==
    pc = "segmented" => Words(JoinSpace(units)) = Words(text)

\* C2 witness: one sentence with a pause mark and a conjunction, cut in three
\* or more units.
C2_Witness ==
    /\ pc = "segmented"
    /\ Len(units) >= 3
    /\ Len(SplitSentences(Strip(text))) = 1
    /\ ConjunctionPoints(Strip(text), 1) # <<>>
    /\ \E i \in 1..Len(text) : text[i] = ","

\* C3: no whitespace-delimited token is split: the oversized units are, in
\* order, exactly the input's tokens longer than max_chars, each alone in its
\* unit, and every word of every unit is a whole token of the input.
C3_TokensNeverSplit ==
    pc = "segmented" =>
        /\ SelectSeq(units, Oversized) = SelectSeq(Words(text), Oversized)
        /\ \A i \in 1..Len(units) : \A k \in 1..Len(Words(units[i])) :
              \E n \in 1..Len(Words(text)) : Words(text)[n] = Words(units[i])[k]

\* C3 witness: word packing meets an oversized token as the middle word.
C3_Witness ==
    /\ pc = "segmented"
    /\ Len(units) = 3
    /\ Len(Words(text)) = 3
    /\ ~Oversized(units[1]) /\ Oversized(units[2]) /\ ~Oversized(units[3])
    /\ PausePoints(Strip(text)) = {}
    /\ ConjunctionPoints(Strip(text), 1) = <<>>
    /\ Len(SplitSentences(Strip(text))) = 1

(***************************************************************************)
(* Claims about the target capture.                                        *)
(***************************************************************************)
FieldNames(config) == {config[k].field_name : k \in 1..Len(config)}
RequiredNames(config) == {config[k].field_name : k \in {j \in 1..Len(config) : config[j].required}}

\* C5: whatever the message, a value that extract_from_message returns for a
\* choice field is one of the field's choices, exactly as configured.
C5_ChoiceValueIsAChoice ==
    pc = "extracted" =>
        \A k \in 1..Len(target_config) :
            (/\ target_config[k].field_type = "choice"
             /\ target_config[k].field_name \in DOMAIN extracted)
            => InChoices(extracted[target_config[k].field_name],
                         target_config[k].choices)

\* C5 witness: a choice is captured from a message that spells it in another
\* case; the configured spelling is returned.
C5_Witness ==
    /\ pc = "extracted"
    /\ \E k \in 1..Len(target_config) :
          /\ target_config[k].field_type = "choice"
          /\ target_config[k].field_name \in DOMAIN extracted
          /\ Len(extracted[target_config[k].field_name]) = 2
          /\ ~Contains(message, extracted[target_config[k].field_name])

\* C6: with nothing captured the target is incomplete; after every merge of
\* an extraction it is complete exactly when every required field has been
\* captured, so it never goes back to incomplete, and a merge that brings no
\* required field leaves completion as it was.
C6_CompletionNeverFlipsBack ==
    /\ (pc = "conversation" => ~is_complete(target_config, user_state))
    /\ [][ /\ is_complete(target_config, user_state)
                => is_complete(target_config', user_state')
           /\ is_complete(target_config', user_state')
                <=> RequiredNames(target_config)
                        \subseteq (DOMAIN user_state \cup DOMAIN extracted')
           /\ DOMAIN extracted' \cap RequiredNames(target_config) = {}
                => (is_complete(target_config', user_state')
                        <=> is_complete(target_config, user_state)) ]_vars

\* C6 witness: the target is complete and the last message brought an
\* optional field only.
C6_Witness ==
    /\ pc = "conversation"
    /\ is_complete(target_config, user_state)
    /\ extracted # EmptyDict
    /\ DOMAIN extracted \cap RequiredNames(target_config) = {}
    /\ Cardinality(RequiredNames(target_config)) = 2

Structured == formatted.formatting_applied = "structured"

\* msgs is intro units, then item_msgs, then outro units: the messages before
\* the items carry the words of intro, the messages after them those of outro
IntroItemsOutro(msgs, intro, item_msgs, outro) ==
    \E a \in 0..Len(msgs) :
        /\ a + Len(item_msgs) <= Len(msgs)
        /\ SubSeq(msgs, a + 1, a + Len(item_msgs)) = item_msgs
        /\ Words(JoinSpace(SubSeq(msgs, 1, a))) = Words(intro)
        /\ Words(JoinSpace(SubSeq(msgs, a + Len(item_msgs) + 1, Len(msgs))))
               = Words(outro)

ItemMessages(items) == [k \in 1..Len(items) |-> _format_single_item(items[k])]
AgentItemMessages(items) == [k \in 1..Len(items) |-> FormatItem(items[k])]

\* C4: structured assembly emits one whole message per parsed item, in the
\* items' order, after every intro unit and before every outro unit, both in
\* ResponseProcessor._apply_structured_formatting and in
\* format_structured_response.
C4_ItemsAtomicInOrder ==
    /\ (pc = "processed" /\ Structured) =>
          IntroItemsOutro(formatted.messages,
                          _parse_structured_content(raw_response).intro,
                          ItemMessages(_parse_structured_content(raw_response).items),
                          _parse_structured_content(raw_response).outro)
    /\ (pc = "agent_formatted" /\ has_structured_content(raw_response)) =>
          IntroItemsOutro(agent_messages,
                          AgentParse(raw_response).intro,
                          AgentItemMessages(AgentParse(raw_response).items),
                          AgentParse(raw_response).outro)

\* C4 witness: a structured reply whose introduction is cut in two or more
\* units and whose items, one of them longer than max_chars, follow whole.
C4_Witness ==
    /\ pc = "processed" /\ Structured
    /\ Len(_parse_structured_content(raw_response).items) >= 2
    /\ Len(_break_text_intelligently(_parse_structured_content(raw_response).intro,
                                     min_chars, max_chars)) >= 2
    /\ \E k \in 1..Len(formatted.messages) :
          /\ Len(formatted.messages[k]) > max_chars
          /\ \E j \in 1..Len(_parse_structured_content(raw_response).items) :
                formatted.messages[k] =
                    _format_single_item(_parse_structured_content(raw_response).items[j])

\* ten times the complexity score of a reply, from its item count, its titles
\* and its number of lines
ScoreTenths(s) ==
      3 * _analyze_content_structure(s).item_count
    + (IF _analyze_content_structure(s).has_titles THEN 4 ELSE 0)
    + (IF Len(SplitLines(s)) > 3 THEN 3 ELSE 0)

\* C8: process_response formats a non-empty reply as structured exactly when
\* it has three or more items or a complexity score above 0.7; every other
\* reply is handled as prose (one message, or prose segmentation).
C8_StructuredIffThreshold ==
    (pc = "processed" /\ raw_response # <<>>) =>
        /\ Structured <=> \/ _analyze_content_structure(raw_response).item_count >= 3
                          \/ ScoreTenths(raw_response) > 7
        /\ ~Structured => formatted.formatting_applied \in {"micro", "single", "empty"}

\* C8 witness: fewer than three items, structured by the score alone.
C8_Witness ==
    /\ pc = "processed" /\ Structured
    /\ _analyze_content_structure(raw_response).item_count < 3
    /\ ScoreTenths(raw_response) > 7

\* the three lines of a reply made of three `N. **Title**: details` lines
IsThreeNumberedTitles(s) ==
    /\ Len(SplitLines(s)) = 3
    /\ \A i \in 1..3 : SplitLines(s)[i] \in NumberedTitleLines

PartsOfLine(line) == CHOOSE r \in NumberedTitleParts : Render(r) = line

\* C9: a reply of three `N. **Title**: details` lines is structured, parses to
\* three items in the lines' order, and is assembled with exactly three item
\* messages, the i-th starting with the i-th line's `N. **Title**:` prefix
\* (the agent path puts its default introduction before and closing after).
C9_ThreeLinesRoundTrip ==
    IsThreeNumberedTitles(raw_response) =>
        /\ pc = "processed" =>
              /\ Structured
              /\ Len(_parse_structured_content(raw_response).items) = 3
              /\ \A i \in 1..3 :
                    /\ _parse_structured_content(raw_response).items[i].number
                           = PartsOfLine(SplitLines(raw_response)[i]).n
                    /\ _parse_structured_content(raw_response).items[i].title
                           = PartsOfLine(SplitLines(raw_response)[i]).t
              /\ Len(formatted.messages) = 3
              /\ \A i \in 1..3 :
                    HasAt(formatted.messages[i], 1,
                          PrefixOf(PartsOfLine(SplitLines(raw_response)[i])))
        /\ pc = "agent_formatted" =>
              /\ has_structured_content(raw_response)
              /\ Len(AgentParse(raw_response).items) = 3
              /\ Len(agent_messages) = 5
              /\ agent_messages[1] \in {IntroPlans, IntroDoctors, IntroGeneric}
              /\ agent_messages[5] \in {OutroPlans, OutroDoctors, OutroGeneric}
              /\ \A i \in 1..3 :
                    HasAt(agent_messages[i + 1], 1,
                          PrefixOf(PartsOfLine(SplitLines(raw_response)[i])))

\* C9 witness: three different lines, out of numeric order, one without
\* details, formatted by process_response.
C9_Witness ==
    /\ pc = "processed"
    /\ IsThreeNumberedTitles(raw_response)
    /\ PartsOfLine(SplitLines(raw_response)[1]).n = <<"1", "2">>
    /\ PartsOfLine(SplitLines(raw_response)[2]).n = <<"2">>
    /\ PartsOfLine(SplitLines(raw_response)[3]).n = <<"1">>
    /\ Len(formatted.messages) = 3

(***************************************************************************)
(* Claims about both the segmentation and the structured assembly.         *)
(***************************************************************************)
NoEmptyUnit(msgs) == \A i \in 1..Len(msgs) : msgs[i] # <<>>

\* C10 as stated: no empty unit for any text other than the empty string.
C10_NoEmptyUnitForNonEmptyText ==
    /\ (pc = "segmented" /\ text # <<>>) => NoEmptyUnit(units)
    /\ (pc = "agent_formatted" /\ raw_response # <<>>) => NoEmptyUnit(agent_messages)

\* C10: for every text that holds a non-whitespace character, neither
\* micro_responses nor format_structured_response returns an empty unit.
C10_NoEmptyUnitForNonBlankText ==
    /\ (pc = "segmented" /\ Strip(text) # <<>>) =>
          units # <<>> /\ NoEmptyUnit(units)
    /\ (pc = "agent_formatted" /\ Strip(raw_response) # <<>>) =>
          agent_messages # <<>> /\ NoEmptyUnit(agent_messages)

\* C10 witness: a structured reply with an item that has no details, between
\* the default introduction and closing.
C10_Witness ==
    /\ pc = "agent_formatted"
    /\ has_structured_content(raw_response)
    /\ \E k \in 1..Len(AgentParse(raw_response).items) :
          AgentParse(raw_response).items[k].details = <<>>
    /\ Len(agent_messages) = Len(AgentParse(raw_response).items) + 2

(***************************************************************************)
(* Claims about short texts.                                               *)
(***************************************************************************)
\* C11 as stated: a text no longer than max_chars comes back as the
\* one-element list holding the text itself.
C11_ShortTextReturnedUnchanged ==
    /\ (pc = "segmented" /\ Len(text) <= max_chars) => units = <<text>>
    /\ (pc = "micro_formatted" /\ Len(raw_response) <= max_chars)
          => formatted.messages = <<raw_response>>

\* C11: micro_responses returns the stripped text as its only unit whenever
\* the stripped text is no longer than max_chars (the text itself when it has
\* no blank at either end); _break_text_intelligently returns a text no
\* longer than max_chars as it is.
C11_ShortTextReturnedStripped ==
    /\ (pc = "segmented" /\ Len(Strip(text)) <= max_chars) => units = <<Strip(text)>>
    /\ (pc = "micro_formatted" /\ Len(raw_response) <= max_chars)
          => formatted.messages = <<raw_response>>

\* C11 witness: a short text that holds a sentence end and a pause, and so
\* would be cut if it were longer, is returned whole.
C11_Witness ==
    /\ pc = "segmented"
    /\ Len(text) <= max_chars
    /\ Len(SplitSentences(Strip(text))) > 1
    /\ units = <<text>>

(***************************************************************************)
(* core/utils.py, session management: the module-level dict _SESSIONS maps *)
(* a session key to the dict of that session.  Session keys are strings,   *)
(* as every caller builds them, so that str(session_key) is the key        *)
(* itself.  Each operator takes the store and returns the store after the  *)
(* call.                                                                   *)
(***************************************************************************)
SessionKeys == {"s1", "s2"}

DictGet(d, k, default) == IF k \in DOMAIN d THEN d[k] ELSE default

\* dict.pop(k, None): the dict without the key
DictPop(d, k) ==
    IF DOMAIN d \ {k} = {} THEN EmptyDict ELSE [x \in DOMAIN d \ {k} |-> d[x]]

\* _SESSIONS.setdefault(key, {}): the store after the call
setdefault(store, k) == IF k \in DOMAIN store THEN store ELSE DictSet(store, k, EmptyDict)

\* get_state: the store after the call; the dict returned is the entry of k
get_state(store, k) == setdefault(store, k)

\* the keyword arguments of a set_state call whose value is not None
NotNone(kwargs) == {n \in DOMAIN kwargs : kwargs[n] # NoneValue}

\* mutant of clear_session: the whole store is emptied
clear_session_All(store, k) == EmptyDict

set_state(store, k, kwargs) ==
    LET s1 == setdefault(store, k)
        state == [n \in DOMAIN s1[k] \cup NotNone(kwargs) |->
                    IF n \in NotNone(kwargs) THEN kwargs[n][1] ELSE s1[k][n]]
    IN DictSet(s1, k, state)

\* mark_once: the store after the call, and the value returned
mark_once(store, k, tag) ==
    LET s1 == get_state(store, k)
        executed == DictGet(s1[k], "_executed", {})
    IN IF tag \in executed
       THEN [store |-> s1, result |-> FALSE]
       ELSE [store |-> DictSet(s1, k, DictSet(s1[k], "_executed", executed \cup {tag})),
             result |-> TRUE]

clear_session(store, k) == DictPop(store, k)

\* list_sessions: the keys of the store
list_sessions(store) == DOMAIN store

(***************************************************************************)
(* core/conversation_strategy.py: the readings of the session state taken  *)
(* by the consultative strategy.  A str value is a sequence of characters  *)
(* and a list value a sequence, so that the empty sequence is the falsy    *)
(* value of both.                                                          *)
(***************************************************************************)
\* mutant of Captured: no value counts as captured
Captured_Never(state, name) == FALSE

\* state.get(name) is truthy
Captured(state, name) == name \in DOMAIN state /\ state[name] # <<>>

business_info_score(state) ==
    (IF Captured(state, "business_type") THEN 2 ELSE 0)
    + (IF Captured(state, "volume_clients") THEN 1 ELSE 0)
    + (IF Captured(state, "current_channels") THEN 1 ELSE 0)
    + (IF Captured(state, "pain_points") THEN 1 ELSE 0)

\* mutant of PhaseOf: positioning is reached with a score of 3
PhaseOf_EarlyPositioning(state) ==
    IF business_info_score(state) < 2 THEN "discovery"
    ELSE IF business_info_score(state) < 3 THEN "understanding"
    ELSE "positioning"

\* mutant of PhaseOf: positioning needs every field
PhaseOf_LatePositioning(state) ==
    IF business_info_score(state) < 2 THEN "discovery"
    ELSE IF business_info_score(state) < 5 THEN "understanding"
    ELSE "positioning"

\* the phase get_conversation_phase computes from the dict of the session
PhaseOf(state) ==
    IF business_info_score(state) < 2 THEN "discovery"
    ELSE IF business_info_score(state) < 4 THEN "understanding"
    ELSE "positioning"

\* get_conversation_phase(session_key): the store after the call (the state
\* is fetched with get_state) and the phase returned
get_conversation_phase(store, k) ==
    LET s1 == get_state(store, k)
    IN [store |-> s1, result |-> PhaseOf(s1[k])]

\* should_present_solution(session_key): the store after the call and the
\* boolean returned
should_present_solution(store, k) ==
    LET r == get_conversation_phase(store, k)
        state == get_state(r.store, k)[k]
        asked_questions == Len(DictGet(state, "asked_questions", <<>>))
        has_pain_points == Len(DictGet(state, "pain_points", <<>>)) > 0
        has_business_info == Captured(state, "business_type")
    IN [store |-> get_state(r.store, k),
        result |-> /\ r.result = "positioning"
                   /\ asked_questions >= 2
                   /\ (has_pain_points \/ has_business_info)]

(***************************************************************************)
(* Session runs: any sequence of calls of the session operations, on two   *)
(* session keys, with a few keyword-argument samples.                      *)
(***************************************************************************)
varejo == <<"v", "a", "r", "e", "j", "o">>
digits5 == <<"5">>

\* keyword arguments of set_state calls; a None value is NoneValue
KwargsSamples ==
    { [business_type |-> Some(varejo)],
      [volume_clients |-> Some(digits5), current_channels |-> Some(<<"whatsapp">>)],
      [pain_points |-> Some(<<"tempo">>), business_type |-> NoneValue],
      [asked_questions |-> Some(<<"business_type_asked", "volume_asked">>)] }

Tags == {"greeting"}

InitSessions ==
    /\ pc = "sessions"
    /\ IdleSeg /\ min_chars = 0 /\ max_chars = 0
    /\ IdleResp
    /\ IdleTarget
    /\ IdleRegistry
    /\ _SESSIONS = EmptyDict
    /\ alone = [k \in SessionKeys |-> EmptyDict]
    /\ call = IdleCall
    /\ threads = <<>> /\ turn_log = <<>>

SessionFrame == UNCHANGED <<registryVars, pc, segVars, respVars, targetVars, threads, turn_log>>

SetState ==
    \E k \in SessionKeys, kwargs \in KwargsSamples :
        /\ pc = "sessions"
        /\ _SESSIONS' = set_state(_SESSIONS, k, kwargs)
        /\ alone' = [alone EXCEPT ![k] = set_state(alone[k], k, kwargs)]
        /\ call' = [op |-> "set_state", key |-> k, args |-> kwargs, result |-> "none"]
        /\ SessionFrame

GetState ==
    \E k \in SessionKeys :
        /\ pc = "sessions"
        /\ _SESSIONS' = get_state(_SESSIONS, k)
        /\ alone' = [alone EXCEPT ![k] = get_state(alone[k], k)]
        /\ call' = [op |-> "get_state", key |-> k, result |-> _SESSIONS'[k]]
        /\ SessionFrame

MarkOnce ==
    \E k \in SessionKeys, tag \in Tags :
        /\ pc = "sessions"
        /\ _SESSIONS' = mark_once(_SESSIONS, k, tag).store
        /\ alone' = [alone EXCEPT ![k] = mark_once(alone[k], k, tag).store]
        /\ call' = [op |-> "mark_once", key |-> k,
                    result |-> mark_once(_SESSIONS, k, tag).result]
        /\ SessionFrame

ClearSession ==
    \E k \in SessionKeys :
        /\ pc = "sessions"
        /\ _SESSIONS' = clear_session(_SESSIONS, k)
        /\ alone' = [alone EXCEPT ![k] = clear_session(alone[k], k)]
        /\ call' = [op |-> "clear_session", key |-> k, result |-> "none"]
        /\ SessionFrame

ListSessions ==
    /\ pc = "sessions"
    /\ call' = [op |-> "list_sessions", key |-> "none", result |-> list_sessions(_SESSIONS)]
    /\ UNCHANGED <<_SESSIONS, alone>>
    /\ SessionFrame

GetConversationPhase ==
    \E k \in SessionKeys :
        /\ pc = "sessions"
        /\ _SESSIONS' = get_conversation_phase(_SESSIONS, k).store
        /\ alone' = [alone EXCEPT ![k] = get_conversation_phase(alone[k], k).store]
        /\ call' = [op |-> "get_conversation_phase", key |-> k,
                    result |-> get_conversation_phase(_SESSIONS, k).result]
        /\ SessionFrame

ShouldPresentSolution ==
    \E k \in SessionKeys :
        /\ pc = "sessions"
        /\ _SESSIONS' = should_present_solution(_SESSIONS, k).store
        /\ alone' = [alone EXCEPT ![k] = should_present_solution(alone[k], k).store]
        /\ call' = [op |-> "should_present_solution", key |-> k,
                    result |-> should_present_solution(_SESSIONS, k).result]
        /\ SessionFrame

NextSessions ==
    \/ SetState \/ GetState \/ MarkOnce \/ ClearSession \/ ListSessions
    \/ GetConversationPhase \/ ShouldPresentSolution

SpecSessions == InitSessions /\ [][NextSessions]_vars

(***************************************************************************)
(* Claims about the session store.                                         *)
(***************************************************************************)
\* the entry of a key in a store, or None
SessionOf(store, k) == IF k \in DOMAIN store THEN Some(store[k]) ELSE NoneValue

\* C13: after any sequence of calls on the two session keys, the entry of
\* each key is the one the calls on that key alone produce from the empty
\* store, and a call on one key leaves the entry of the other key as it was.
C13_SessionsIsolated ==
    /\ [](pc = "sessions" =>
            \A k \in SessionKeys : SessionOf(_SESSIONS, k) = SessionOf(alone[k], k))
    /\ [][pc = "sessions" =>
            \A k \in SessionKeys :
                call'.key # k => SessionOf(_SESSIONS', k) = SessionOf(_SESSIONS, k)]_vars

\* C13 witness: both sessions hold different captured values and the last
\* call was made on the first of them.
C13_Witness ==
    /\ pc = "sessions"
    /\ DOMAIN _SESSIONS = SessionKeys
    /\ Captured(_SESSIONS["s1"], "business_type")
    /\ ~Captured(_SESSIONS["s2"], "business_type")
    /\ Captured(_SESSIONS["s2"], "pain_points")
    /\ "_executed" \in DOMAIN _SESSIONS["s2"]
    /\ call.key = "s1"

(***************************************************************************)
(* core/conversation_strategy.py, extract_business_info: what a message    *)
(* of the user adds to the state of the session.                           *)
(***************************************************************************)
business_patterns ==
    <<
       [name |-> <<"c", "o", "n", "s", "t", "r", "u", "c", "a", "o">>,
        patterns |-> <<<<"m", "a", "t", "e", "r", "i", "a", "l", " ", "d", "e", " ", "c", "o", "n", "s", "t", "r", "u", "ç", "ã", "o">>,
                      <<"c", "o", "n", "s", "t", "r", "u", "ç", "ã", "o">>,
                      <<"l", "o", "c", "a", "d", "o", "r", "a">>,
                      <<"l", "o", "c", "a", "d", "o", "r", "a", " ", "d", "e", " ", "m", "a", "t", "e", "r", "i", "a", "l">>>>],
       [name |-> <<"l", "o", "j", "a", "_", "r", "o", "u", "p", "a", "s">>,
        patterns |-> <<<<"l", "o", "j", "a", " ", "d", "e", " ", "r", "o", "u", "p", "a", "s">>,
                      <<"l", "o", "j", "a", " ", "d", "e", " ", "r", "o", "u", "p", "a">>,
                      <<"v", "e", "n", "d", "o", " ", "r", "o", "u", "p", "a", "s">>,
                      <<"b", "o", "u", "t", "i", "q", "u", "e">>,
                      <<"c", "o", "n", "f", "e", "c", "ç", "ã", "o">>>>],
       [name |-> <<"r", "e", "s", "t", "a", "u", "r", "a", "n", "t", "e">>,
        patterns |-> <<<<"r", "e", "s", "t", "a", "u", "r", "a", "n", "t", "e">>,
                      <<"l", "a", "n", "c", "h", "o", "n", "e", "t", "e">>,
                      <<"p", "a", "d", "a", "r", "i", "a">>,
                      <<"p", "i", "z", "z", "a", "r", "i", "a">>,
                      <<"d", "e", "l", "i", "v", "e", "r", "y">>>>],
       [name |-> <<"c", "l", "i", "n", "i", "c", "a">>,
        patterns |-> <<<<"c", "l", "í", "n", "i", "c", "a">>,
                      <<"c", "o", "n", "s", "u", "l", "t", "ó", "r", "i", "o">>,
                      <<"m", "é", "d", "i", "c", "o">>,
                      <<"d", "e", "n", "t", "i", "s", "t", "a">>,
                      <<"f", "i", "s", "i", "o", "t", "e", "r", "a", "p", "i", "a">>>>],
       [name |-> <<"e", "s", "c", "r", "i", "t", "o", "r", "i", "o">>,
        patterns |-> <<<<"e", "s", "c", "r", "i", "t", "ó", "r", "i", "o">>,
                      <<"a", "d", "v", "o", "c", "a", "c", "i", "a">>,
                      <<"c", "o", "n", "t", "a", "b", "i", "l", "i", "d", "a", "d", "e">>,
                      <<"c", "o", "n", "s", "u", "l", "t", "o", "r", "i", "a">>>>],
       [name |-> <<"s", "a", "l", "a", "o">>,
        patterns |-> <<<<"s", "a", "l", "ã", "o">>,
                      <<"b", "a", "r", "b", "e", "a", "r", "i", "a">>,
                      <<"e", "s", "t", "é", "t", "i", "c", "a">>,
                      <<"b", "e", "l", "e", "z", "a">>,
                      <<"c", "a", "b", "e", "l", "e", "i", "r", "e", "i", "r", "o">>>>],
       [name |-> <<"o", "f", "i", "c", "i", "n", "a">>,
        patterns |-> <<<<"o", "f", "i", "c", "i", "n", "a">>,
                      <<"m", "e", "c", "â", "n", "i", "c", "a">>,
                      <<"a", "u", "t", "o", " ", "c", "e", "n", "t", "e", "r">>,
                      <<"c", "o", "n", "c", "e", "s", "s", "i", "o", "n", "á", "r", "i", "a">>>>],
       [name |-> <<"e", "s", "c", "o", "l", "a">>,
        patterns |-> <<<<"e", "s", "c", "o", "l", "a">>,
                      <<"c", "u", "r", "s", "o">>,
                      <<"f", "a", "c", "u", "l", "d", "a", "d", "e">>,
                      <<"e", "d", "u", "c", "a", "ç", "ã", "o">>,
                      <<"e", "n", "s", "i", "n", "o">>>>],
       [name |-> <<"s", "e", "r", "v", "i", "c", "o", "s">>,
        patterns |-> <<<<"s", "e", "r", "v", "i", "ç", "o", "s">>,
                      <<"m", "a", "n", "u", "t", "e", "n", "ç", "ã", "o">>,
                      <<"l", "i", "m", "p", "e", "z", "a">>,
                      <<"s", "e", "g", "u", "r", "a", "n", "ç", "a">>>>],
       [name |-> <<"v", "a", "r", "e", "j", "o">>,
        patterns |-> <<<<"l", "o", "j", "a">>,
                      <<"c", "o", "m", "é", "r", "c", "i", "o">>,
                      <<"v", "e", "n", "d", "a">>,
                      <<"m", "e", "r", "c", "a", "d", "o">>>>],
       [name |-> <<"t", "e", "c", "n", "o", "l", "o", "g", "i", "a">>,
        patterns |-> <<<<"s", "o", "f", "t", "w", "a", "r", "e">>,
                      <<"d", "e", "s", "e", "n", "v", "o", "l", "v", "i", "m", "e", "n", "t", "o">>,
                      <<"T", "I">>,
                      <<"t", "e", "c", "n", "o", "l", "o", "g", "i", "a">>,
                      <<"s", "i", "s", "t", "e", "m", "a">>>>]
    >>

channel_patterns ==
    <<
       [name |-> "whatsapp",
        patterns |-> <<<<"w", "h", "a", "t", "s", "a", "p", "p">>,
                      <<"z", "a", "p">>,
                      <<"w", "p", "p">>>>],
       [name |-> "instagram",
        patterns |-> <<<<"i", "n", "s", "t", "a", "g", "r", "a", "m">>,
                      <<"i", "n", "s", "t", "a">>,
                      <<"d", "m">>>>],
       [name |-> "telefone",
        patterns |-> <<<<"t", "e", "l", "e", "f", "o", "n", "e">>,
                      <<"l", "i", "g", "a", "ç", "ã", "o">>,
                      <<"c", "a", "l", "l">>,
                      <<"t", "e", "l", "e", "f", "ô", "n", "i", "c", "o">>>>],
       [name |-> "presencial",
        patterns |-> <<<<"p", "r", "e", "s", "e", "n", "c", "i", "a", "l">>,
                      <<"l", "o", "j", "a", " ", "f", "í", "s", "i", "c", "a">>,
                      <<"b", "a", "l", "c", "ã", "o">>,
                      <<"p", "e", "s", "s", "o", "a", "l", "m", "e", "n", "t", "e">>>>],
       [name |-> "site",
        patterns |-> <<<<"s", "i", "t", "e">>,
                      <<"w", "e", "b", "s", "i", "t", "e">>,
                      <<"o", "n", "l", "i", "n", "e">>,
                      <<"i", "n", "t", "e", "r", "n", "e", "t">>>>],
       [name |-> "email",
        patterns |-> <<<<"e", "m", "a", "i", "l">>,
                      <<"e", "-", "m", "a", "i", "l">>,
                      <<"c", "o", "r", "r", "e", "i", "o", " ", "e", "l", "e", "t", "r", "ô", "n", "i", "c", "o">>>>]
    >>

pain_patterns ==
    <<
       [name |-> "tempo",
        patterns |-> <<<<"m", "u", "i", "t", "o", " ", "t", "e", "m", "p", "o">>,
                      <<"d", "e", "m", "o", "r", "a">>,
                      <<"d", "e", "m", "o", "r", "a", "d", "o">>,
                      <<"p", "e", "r", "c", "o", " ", "t", "e", "m", "p", "o">>,
                      <<"s", "e", "m", " ", "t", "e", "m", "p", "o">>>>],
       [name |-> "repeticao",
        patterns |-> <<<<"s", "e", "m", "p", "r", "e", " ", "a", " ", "m", "e", "s", "m", "a", " ", "c", "o", "i", "s", "a">>,
                      <<"p", "e", "r", "g", "u", "n", "t", "a", "s", " ", "r", "e", "p", "e", "t", "i", "t", "i", "v", "a", "s">>,
                      <<"s", "e", "m", "p", "r", "e", " ", "p", "e", "r", "g", "u", "n", "t", "a", "m">>,
                      <<"r", "e", "p", "e", "t", "i", "n", "d", "o">>>>],
       [name |-> "organizacao",
        patterns |-> <<<<"d", "e", "s", "o", "r", "g", "a", "n", "i", "z", "a", "d", "o">>,
                      <<"b", "a", "g", "u", "n", "ç", "a">>,
                      <<"p", "e", "r", "c", "o", " ", "i", "n", "f", "o", "r", "m", "a", "ç", "ã", "o">>,
                      <<"s", "e", "m", " ", "c", "o", "n", "t", "r", "o", "l", "e">>>>],
       [name |-> "volume",
        patterns |-> <<<<"m", "u", "i", "t", "o", "s", " ", "c", "l", "i", "e", "n", "t", "e", "s">>,
                      <<"n", "ã", "o", " ", "d", "o", "u", " ", "c", "o", "n", "t", "a">>,
                      <<"s", "o", "b", "r", "e", "c", "a", "r", "r", "e", "g", "a", "d", "o">>,
                      <<"m", "u", "i", "t", "o", " ", "m", "o", "v", "i", "m", "e", "n", "t", "o">>>>],
       [name |-> "noturno",
        patterns |-> <<<<"f", "o", "r", "a", " ", "d", "o", " ", "h", "o", "r", "á", "r", "i", "o">>,
                      <<"à", " ", "n", "o", "i", "t", "e">>,
                      <<"f", "i", "n", "a", "l", " ", "d", "e", " ", "s", "e", "m", "a", "n", "a">>,
                      <<"d", "e", "p", "o", "i", "s", " ", "d", "o", " ", "e", "x", "p", "e", "d", "i", "e", "n", "t", "e">>>>],
       [name |-> "qualidade",
        patterns |-> <<<<"a", "t", "e", "n", "d", "i", "m", "e", "n", "t", "o", " ", "r", "u", "i", "m">>,
                      <<"d", "e", "m", "o", "r", "a", " ", "p", "a", "r", "a", " ", "r", "e", "s", "p", "o", "n", "d", "e", "r">>,
                      <<"c", "l", "i", "e", "n", "t", "e", "s", " ", "r", "e", "c", "l", "a", "m", "a", "m">>>>]
    >>

\* the entry of a pattern table has a pattern that occurs in the text
EntryIn(t, entry) == \E j \in 1..Len(entry.patterns) : Contains(t, entry.patterns[j])

\* the first pattern of the entry that occurs in the text
FirstPatternIn(t, entry) ==
    entry.patterns[SetMin({j \in 1..Len(entry.patterns) : Contains(t, entry.patterns[j])})]

\* one of the literals at index i: the index past it, or 0
AnyLiteralEnd(s, i, literals) ==
    IF \E w \in literals : HasAt(s, i, w)
    THEN i + Len(CHOOSE w \in literals : HasAt(s, i, w))
    ELSE 0

\* a literal followed by an optional "s" at index i: the index past it, or 0
PluralEnd(s, i, literals) ==
    LET e == AnyLiteralEnd(s, i, literals)
    IN IF e = 0 THEN 0 ELSE IF HasAt(s, e, <<"s">>) THEN e + 1 ELSE e

\* \s*(?:por|no)\s*(?:dia|mês) matched at index i
PerPeriodAt(s, i) ==
    LET p == AnyLiteralEnd(s, SkipSpaces(s, i), {<<"p", "o", "r">>, <<"n", "o">>})
    IN p # 0 /\ AnyLiteralEnd(s, SkipSpaces(s, p), {<<"d", "i", "a">>, <<"m", "ê", "s">>}) # 0

\* (\d+)\s*(?:<nouns>s?)\s*(?:por|no)\s*(?:dia|mês) matched at index i
CountPerPeriodAt(s, i, nouns) ==
    /\ i <= Len(s) /\ IsDigit(s[i])
    /\ LET n == PluralEnd(s, SkipSpaces(s, DigitsEnd(s, i)), nouns)
       IN n # 0 /\ PerPeriodAt(s, n)

Approximately == {<<"c", "e", "r", "c", "a", " ", "d", "e">>, <<"u", "n", "s">>, <<"a", "p", "r", "o", "x", "i", "m", "a", "d", "a", "m", "e", "n", "t", "e">>}

\* index of the digits of an optional-or-required approximation word at i
\* followed by \s*(\d+), or 0
ApproxDigits(s, i, optional) ==
    LET a == AnyLiteralEnd(s, i, Approximately)
        d == SkipSpaces(s, IF a = 0 THEN i ELSE a)
    IN IF (a # 0 \/ optional) /\ d <= Len(s) /\ IsDigit(s[d]) THEN d ELSE 0

\* atendo\s*(?:cerca de|uns|aproximadamente)?\s*(\d+) matched at i: index of
\* the digits, or 0
AtendoDigits(s, i) ==
    IF HasAt(s, i, <<"a", "t", "e", "n", "d", "o">>)
    THEN ApproxDigits(s, SkipSpaces(s, i + 6), TRUE)
    ELSE 0

\* the digits (\d+) captured by the first match of re.search for each of the
\* four volume patterns, with the key the value is stored under; None when
\* the pattern matches nowhere
DigitsFrom(s, d) == SubSeq(s, d, DigitsEnd(s, d) - 1)

VolumeClientsPerPeriod(s) ==
    LET starts == {i \in 1..Len(s) :
                     CountPerPeriodAt(s, i, {<<"c", "l", "i", "e", "n", "t", "e">>, <<"p", "e", "s", "s", "o", "a">>})}
    IN IF starts = {} THEN NoneValue ELSE Some(DigitsFrom(s, SetMin(starts)))

VolumeAtendo(s) ==
    LET starts == {i \in 1..Len(s) : AtendoDigits(s, i) # 0}
    IN IF starts = {} THEN NoneValue ELSE Some(DigitsFrom(s, AtendoDigits(s, SetMin(starts))))

VolumeSalesPerPeriod(s) ==
    LET starts == {i \in 1..Len(s) :
                     CountPerPeriodAt(s, i, {<<"v", "e", "n", "d", "a">>, <<"p", "e", "d", "i", "d", "o">>})}
    IN IF starts = {} THEN NoneValue ELSE Some(DigitsFrom(s, SetMin(starts)))

VolumeApprox(s) ==
    LET starts == {i \in 1..Len(s) : ApproxDigits(s, i, FALSE) # 0}
    IN IF starts = {} THEN NoneValue
       ELSE Some(DigitsFrom(s, ApproxDigits(s, SetMin(starts), FALSE)))

\* the loop over volume_patterns: the first pattern that matches decides
ExtractVolume(s) ==
    IF VolumeClientsPerPeriod(s) # NoneValue
    THEN [volume_clients |-> VolumeClientsPerPeriod(s)]
    ELSE IF VolumeAtendo(s) # NoneValue THEN [volume_clients |-> VolumeAtendo(s)]
    ELSE IF VolumeSalesPerPeriod(s) # NoneValue
    THEN [volume_sales |-> VolumeSalesPerPeriod(s)]
    ELSE IF VolumeApprox(s) # NoneValue THEN [volume_clients |-> VolumeApprox(s)]
    ELSE EmptyDict

\* the loop over business_patterns: the first entry with a pattern in the text
ExtractBusiness(s) ==
    LET hits == {i \in 1..Len(business_patterns) : EntryIn(s, business_patterns[i])}
    IN IF hits = {} THEN EmptyDict
       ELSE [business_type |-> Some(business_patterns[SetMin(hits)].name),
             business_description |->
                 Some(FirstPatternIn(s, business_patterns[SetMin(hits)]))]

Range(seq) == {seq[i] : i \in 1..Len(seq)}

\* the loop over channel_patterns or pain_patterns: the names detected in the
\* text that the list does not hold yet, appended to the list in table order
Detected(s, table, current) ==
    LET Hit(entry) == EntryIn(s, entry) /\ entry.name \notin Range(current)
        new == SelectSeq(table, Hit)
    IN current \o [i \in 1..Len(new) |-> new[i].name]

ExtractList(s, table, name, state) ==
    LET current == DictGet(state, name, <<>>)
        after == Detected(s, table, current)
    IN IF after = current THEN EmptyDict ELSE DictSet(EmptyDict, name, Some(after))

\* the dict `extracted` of extract_business_info, as keyword arguments
ExtractedInfo(text_, state) ==
    LET text_lower == Lower(text_)
    IN DictUpdate(DictUpdate(DictUpdate(ExtractBusiness(text_lower), ExtractVolume(text_lower)),
                             ExtractList(text_lower, channel_patterns, "current_channels", state)),
                  ExtractList(text_lower, pain_patterns, "pain_points", state))

\* mutant of extract_business_info: the dict of the session is replaced by
\* what the message held
extract_business_info_Replace(store, k, text_) ==
    LET s1 == get_state(store, k)
        found == ExtractedInfo(text_, s1[k])
    IN IF DOMAIN found = {} THEN s1
       ELSE DictSet(s1, k, [n \in DOMAIN found |-> found[n][1]])

\* extract_business_info(text, session_key): the store after the call
extract_business_info(store, k, text_) ==
    LET s1 == get_state(store, k)
        found == ExtractedInfo(text_, s1[k])
    IN IF DOMAIN found = {} THEN s1 ELSE set_state(s1, k, found)

(***************************************************************************)
(* Consultative runs: messages of the user handed to                       *)
(* extract_business_info, and the phase asked for in between.              *)
(***************************************************************************)
BusinessMessages ==
    { <<"L", "o", "j", "a">>,
      <<"u", "n", "s", " ", "5">>,
      <<"z", "a", "p">>,
      <<"d", "e", "m", "o", "r", "a">>,
      <<"o", "l", "a">>,
      <<"l", "o", "j", "a", " ", "u", "n", "s", " ", "5", " ", "z", "a", "p", " ", "d", "e", "m", "o", "r", "a">> }

ExtractBusinessInfo ==
    \E k \in SessionKeys, msg \in BusinessMessages :
        /\ pc = "sessions"
        /\ _SESSIONS' = extract_business_info(_SESSIONS, k, msg)
        /\ alone' = [alone EXCEPT ![k] = extract_business_info(alone[k], k, msg)]
        /\ call' = [op |-> "extract_business_info", key |-> k, result |-> "none"]
        /\ SessionFrame

NextPhase == ExtractBusinessInfo \/ GetConversationPhase

SpecPhase == InitSessions /\ [][NextPhase]_vars

(***************************************************************************)
(* Claims about the conversation phase.                                    *)
(***************************************************************************)
\* the score of the claim: 2 for a captured business_type, 1 for each other
\* captured field; captured is: the session holds a value under the name
CapturedScore(state) ==
    (IF "business_type" \in DOMAIN state THEN 2 ELSE 0)
    + Cardinality(DOMAIN state \cap {"volume_clients", "current_channels", "pain_points"})

\* C12: the phase returned for a session is discovery iff the score of its
\* captured fields is below 2, understanding iff it is 2 or 3, positioning
\* iff it is 4 or more.
C12_PhaseFromCapturedScore ==
    (pc = "sessions" /\ call.op = "get_conversation_phase") =>
        LET score == CapturedScore(_SESSIONS[call.key])
        IN /\ call.result \in {"discovery", "understanding", "positioning"}
           /\ call.result = "discovery" <=> score < 2
           /\ call.result = "understanding" <=> (2 <= score /\ score < 4)
           /\ call.result = "positioning" <=> score >= 4

\* C12 witness: a session with three captured fields but no business type
\* is in the understanding phase.
C12_Witness ==
    /\ pc = "sessions" /\ call.op = "get_conversation_phase"
    /\ CapturedScore(_SESSIONS[call.key]) = 3
    /\ "business_type" \notin DOMAIN _SESSIONS[call.key]
    /\ call.result = "understanding"

(***************************************************************************)
(* core/agent.py and core/persistence.py: the calls the agent makes into   *)
(* the persistence module.  agent.py imports save_message and              *)
(* persistence_manager from core.persistence and passes the tenant id as   *)
(* one more positional argument than the functions there take, so that     *)
(* each call ends with TypeError before it reads or writes the file.       *)
(***************************************************************************)
\* def save_message(message) and the call save_message(message, self.tenant_id)
save_message_parameters == 1
save_message_arguments == 2

\* def get_session_messages(self, session_id) and the call
\* persistence_manager.get_session_messages(self.session_key, self.tenant_id)
get_session_messages_parameters == 1
get_session_messages_arguments == 2

\* the exception a call with n arguments to a function of p parameters ends
\* with ("none": the call goes through)
CallRaises(p, n) == IF n = p THEN "none" ELSE "TypeError"

(***************************************************************************)
(* core/agent.py: two turns handled at the same time, with no lock around  *)
(* the session state.  Each turn runs _save_message or _collect_user_info  *)
(* statement by statement; current_state is the dict of the session        *)
(* itself, so that each read sees the state at the time of the read.       *)
(***************************************************************************)
MaxThreadTurns == 2

TurnIds == {1, 2}

Ana == <<"A", "n", "a">>
Bia == <<"B", "i", "a">>

\* results of extract_info_from_text for the messages of the users
ExtractedSamples == { [name |-> Ana], [name |-> Bia] }

IdleTurn ==
    [pc |-> "idle", op |-> "none", key |-> "none",
     extracted |-> EmptyDict, collected |-> EmptyDict, turns |-> 0]

InitTurns ==
    /\ pc = "turns"
    /\ IdleSeg /\ min_chars = 0 /\ max_chars = 0
    /\ IdleResp
    /\ IdleTarget
    /\ IdleRegistry
    /\ _SESSIONS = EmptyDict
    /\ alone = EmptyDict
    /\ call = IdleCall
    /\ threads = [t \in TurnIds |-> IdleTurn]
    /\ turn_log = [k \in SessionKeys |-> [saves |-> 0, overlapped |-> FALSE]]

TurnFrame == UNCHANGED <<registryVars, pc, segVars, respVars, targetVars, alone, call>>

\* another turn is between its first and its last statement, on the key
Running(t, k) == \E u \in TurnIds \ {t} : threads[u].pc # "idle" /\ threads[u].key = k

NoteOverlap(t, k) ==
    [turn_log EXCEPT ![k].overlapped = @ \/ Running(t, k)]

\* _save_message: current_state = get_state(session_key)
SaveMessageGetState(t) ==
    \E k \in SessionKeys :
        /\ pc = "turns" /\ threads[t].pc = "idle" /\ threads[t].turns < MaxThreadTurns
        /\ _SESSIONS' = get_state(_SESSIONS, k)
        /\ threads' = [threads EXCEPT ![t] =
                          [@ EXCEPT !.pc = "got_state", !.op = "_save_message", !.key = k,
                                    !.collected = EmptyDict, !.turns = @ + 1]]
        /\ turn_log' = NoteOverlap(t, k)
        /\ TurnFrame

\* _save_message: the call save_message(message, self.tenant_id) raises
\* TypeError; the except clause of _save_message prints it and the method
\* returns, so that the statements after the call (the message counter of
\* lines 521-522) are not run.  Had the call gone through, the counter would
\* be read and written here
SaveMessagePersist(t) ==
    /\ pc = "turns" /\ threads[t].pc = "got_state" /\ threads[t].op = "_save_message"
    /\ _SESSIONS' =
          IF CallRaises(save_message_parameters, save_message_arguments) = "none"
          THEN set_state(_SESSIONS, threads[t].key,
                         [message_count |->
                             Some(DictGet(get_state(_SESSIONS, threads[t].key)[threads[t].key],
                                          "message_count", 0) + 1)])
          ELSE _SESSIONS
    /\ threads' = [threads EXCEPT ![t] = [@ EXCEPT !.pc = "idle"]]
    /\ turn_log' = [turn_log EXCEPT ![threads[t].key].saves = @ + 1]
    /\ TurnFrame

\* _collect_user_info: extracted = extract_info_from_text(text), then
\* current_state = get_state(session_key)
CollectGetState(t) ==
    \E k \in SessionKeys, found \in ExtractedSamples :
        /\ pc = "turns" /\ threads[t].pc = "idle" /\ threads[t].turns < MaxThreadTurns
        /\ _SESSIONS' = get_state(_SESSIONS, k)
        /\ threads' = [threads EXCEPT ![t] =
                          [@ EXCEPT !.pc = "got_state", !.op = "_collect_user_info",
                                    !.key = k, !.extracted = found,
                                    !.collected = EmptyDict, !.turns = @ + 1]]
        /\ turn_log' = NoteOverlap(t, k)
        /\ TurnFrame

\* if value and not current_state.get(key)
CollectCheck(t) ==
    /\ pc = "turns" /\ threads[t].pc = "got_state" /\ threads[t].op = "_collect_user_info"
    /\ threads' = [threads EXCEPT ![t] =
                      [@ EXCEPT !.pc =
                          IF /\ threads[t].extracted["name"] # <<>>
                             /\ ~Captured(get_state(_SESSIONS, threads[t].key)[threads[t].key], "name")
                          THEN "collecting" ELSE "idle"]]
    /\ UNCHANGED <<_SESSIONS, turn_log>>
    /\ TurnFrame

\* collected[key] = value; set_state(session_key, **{key: value})
CollectSetState(t) ==
    /\ pc = "turns" /\ threads[t].pc = "collecting"
    /\ _SESSIONS' = set_state(_SESSIONS, threads[t].key,
                              [name |-> Some(threads[t].extracted["name"])])
    /\ threads' = [threads EXCEPT ![t] =
                      [@ EXCEPT !.pc = "idle", !.collected = threads[t].extracted]]
    /\ UNCHANGED turn_log
    /\ TurnFrame

NextTurns ==
    \E t \in TurnIds :
        \/ SaveMessageGetState(t) \/ SaveMessagePersist(t)
        \/ CollectGetState(t) \/ CollectCheck(t) \/ CollectSetState(t)

SpecTurns == InitTurns /\ [][NextTurns]_vars

(***************************************************************************)
(* Claims about concurrent turns.                                          *)
(***************************************************************************)
\* no turn is between its first and its last statement
Quiet == \A t \in TurnIds : threads[t].pc = "idle"

MessageCount(k) == DictGet(DictGet(_SESSIONS, k, EmptyDict), "message_count", 0)

\* a turn returned a collected name the session does not hold
CaptureLost(k) ==
    \E t \in TurnIds :
        /\ threads[t].key = k /\ threads[t].op = "_collect_user_info"
        /\ "name" \in DOMAIN threads[t].collected
        /\ DictGet(_SESSIONS[k], "name", <<>>) # threads[t].collected["name"]

\* C14: two turns for the same session key that are not serialized can
\* interleave so that an update is lost: when all turns have finished, a
\* collected name is missing from the session only if two turns for that
\* key overlapped; the witness is the lost update itself.  The message
\* counter is never written (the save before it raises), so that no count
\* can be lost.
C14_UpdateLostOnlyWhenTurnsOverlap ==
    (pc = "turns" /\ Quiet) =>
        \A k \in SessionKeys :
            /\ MessageCount(k) = 0
            /\ CaptureLost(k) => turn_log[k].overlapped

\* C14 witness: two turns each collected a name for the same session key,
\* both returned it as collected, and the session holds one of the two.
C14_Witness ==
    /\ pc = "turns" /\ Quiet
    /\ \A t \in TurnIds :
          /\ threads[t].turns = 1 /\ threads[t].op = "_collect_user_info"
          /\ threads[t].key = "s1" /\ "name" \in DOMAIN threads[t].collected
    /\ threads[1].collected # threads[2].collected
    /\ CaptureLost("s1")

(***************************************************************************)
(* core/processors/target.py, TargetConfigManager: the target_config.json  *)
(* of a tenant is turned into TargetField objects and registered; the      *)
(* callers fetch the configuration with get_config and extract with it.    *)
(***************************************************************************)
TenantIds == {"timmy_vendas", "varizemed"}

\* a configuration with two fields of the same name
DuplicateNameConfig ==
    << Field("porte", "text", TRUE, <<>>, <<>>, << <<"n">> >>),
       Field("porte", "choice", FALSE, << <<"A">>, <<"1">> >>, <<>>, << <<"t">> >>) >>

\* a configuration with a choice field that has no choices
EmptyChoicesConfig ==
    << Field("negocio", "text", TRUE, <<>>, <<>>, << <<"n">> >>),
       Field("porte", "choice", TRUE, <<>>, <<>>, << <<"t">> >>) >>

\* the field lists of the target_config.json files
ConfigFiles == {SalesConfig, GenericConfig, DuplicateNameConfig, EmptyChoicesConfig}

\* TargetField.__post_init__ raises ValueError
PostInitRaises(field) == field.field_type = "choice" /\ field.choices = <<>>

\* _load_tenant_config: the registry after the call, the exception the call
\* ends with (every Exception is caught) and the line it prints
_load_tenant_config(configs, tenant_id, config_data) ==
    IF \E i \in 1..Len(config_data) : PostInitRaises(config_data[i])
    THEN [configs |-> configs, raised |-> "none", printed |-> "ValueError"]
    ELSE [configs |-> DictSet(configs, tenant_id, config_data),
          raised |-> "none", printed |-> "carregada"]

\* get_config: self._configs.get(tenant_id)
get_config(configs, tenant_id) ==
    IF tenant_id \in DOMAIN configs THEN Some(configs[tenant_id]) ELSE NoneValue

InitLoad ==
    /\ pc = "loading"
    /\ IdleSeg /\ min_chars = 0 /\ max_chars = 0
    /\ IdleResp
    /\ IdleTarget
    /\ IdleRegistry
    /\ IdleSession

LoadTenantConfig ==
    \E tenant_id \in TenantIds, config_data \in ConfigFiles :
        \E r \in {_load_tenant_config(_configs, tenant_id, config_data)} :
            /\ pc = "loading"
            /\ _configs' = r.configs
            /\ call' = [op |-> "_load_tenant_config", key |-> tenant_id,
                        result |-> [data |-> config_data, raised |-> r.raised,
                                    printed |-> r.printed]]
            /\ UNCHANGED <<registryVars, pc, segVars, respVars, target_config, message, extracted,
                           error, user_state, turns, _SESSIONS, alone, threads, turn_log>>

\* config = get_target_config(tenant); if config: extract_from_message(message, config)
ExtractForTenant ==
    \E tenant_id \in TenantIds, msg \in TurnMessages :
        /\ pc = "loading"
        /\ get_config(_configs, tenant_id) # NoneValue
        /\ \E result \in {extract_from_message(msg, _configs[tenant_id])} :
              /\ extracted' = result.extracted
              /\ error' = result.error
        /\ target_config' = _configs[tenant_id]
        /\ message' = msg
        /\ call' = [op |-> "extract_from_message", key |-> tenant_id, result |-> "none"]
        /\ UNCHANGED <<registryVars, pc, segVars, respVars, user_state, turns, _configs,
                       _SESSIONS, alone, threads, turn_log>>

NextLoad == LoadTenantConfig \/ ExtractForTenant

SpecLoad == InitLoad /\ [][NextLoad]_vars

(***************************************************************************)
(* Claims about loading a configuration.                                   *)
(***************************************************************************)
HasDuplicateNames(config) ==
    \E i, j \in 1..Len(config) : i # j /\ config[i].field_name = config[j].field_name

Malformed(config) ==
    HasDuplicateNames(config) \/ \E i \in 1..Len(config) : PostInitRaises(config[i])

\* C15 as stated: loading a configuration with duplicate field names or with
\* a choice field without choices ends with an error raised to the caller,
\* and extraction never runs with such a configuration.
C15_MalformedSchemaFailsAtLoad ==
    /\ (pc = "loading" /\ call.op = "_load_tenant_config" /\ Malformed(call.result.data))
          => call.result.raised # "none"
    /\ (pc = "loading" /\ call.op = "extract_from_message") => ~Malformed(target_config)

(***************************************************************************)
(* Merging what a turn extracted into what the session holds: set_state    *)
(* (as extract_business_info calls it), _collect_user_info, and the        *)
(* dict.update of the conversation loop.                                   *)
(***************************************************************************)
\* the names _collect_user_info stores: the value is truthy and the session
\* holds no truthy value under the name
Collectable(state, found) ==
    {n \in DOMAIN found : found[n] # <<>> /\ ~Captured(state, n)}

\* mutant of _collect_user_info: every truthy value found is stored
_collect_user_info_Overwrite(store, k, found) ==
    LET s1 == get_state(store, k)
        names == {n \in DOMAIN found : found[n] # <<>>}
        collected == IF names = {} THEN EmptyDict ELSE [n \in names |-> found[n]]
    IN [store |-> IF names = {} THEN s1
                  ELSE set_state(s1, k, [n \in names |-> Some(found[n])]),
        result |-> collected]

\* _collect_user_info, the turn running alone: the store after the call and
\* the dict `collected` returned
_collect_user_info(store, k, found) ==
    LET s1 == get_state(store, k)
        names == Collectable(s1[k], found)
        collected == IF names = {} THEN EmptyDict ELSE [n \in names |-> found[n]]
    IN [store |-> IF names = {} THEN s1
                  ELSE set_state(s1, k, [n \in names |-> Some(found[n])]),
        result |-> collected]

CollectUserInfo ==
    \E k \in SessionKeys, found \in ExtractedSamples :
        \E r \in {_collect_user_info(_SESSIONS, k, found)} :
            /\ pc = "sessions"
            /\ _SESSIONS' = r.store
            /\ alone' = [alone EXCEPT ![k] = _collect_user_info(alone[k], k, found).store]
            /\ call' = [op |-> "_collect_user_info", key |-> k, args |-> found,
                        result |-> r.result]
            /\ SessionFrame

NextMerge == SetState \/ CollectUserInfo \/ Turn

SpecMerge == (InitSessions \/ InitCapture) /\ [][NextMerge]_vars

(***************************************************************************)
(* Claims about merging.                                                   *)
(***************************************************************************)
\* the session of the last call holds, under every name of the dict, the
\* value of the dict
HoldsAll(values) ==
    \A n \in DOMAIN values :
        n \in DOMAIN _SESSIONS[call.key] /\ _SESSIONS[call.key][n] = values[n]

\* the values of the keyword arguments that are not None
GivenValues(kwargs) ==
    IF NotNone(kwargs) = {} THEN EmptyDict ELSE [n \in NotNone(kwargs) |-> kwargs[n][1]]

\* set_state and the conversation loop hold the newly extracted values
\* afterwards
LastWriteWinsByUpdate ==
    /\ (pc = "sessions" /\ call.op = "set_state") => HoldsAll(GivenValues(call.args))
    /\ (pc = "conversation" /\ error = "none") =>
          \A f \in DOMAIN extracted : f \in DOMAIN user_state /\ user_state[f] = extracted[f]

\* C16 as stated: after every merge the session holds the value the turn
\* extracted, for every field the turn extracted a value for.
C16_LastWriteWins ==
    /\ LastWriteWinsByUpdate
    /\ (pc = "sessions" /\ call.op = "_collect_user_info") => HoldsAll(call.args)

\* C16: set_state and the update of the conversation loop are last-write-wins
\* per field name; _collect_user_info is first-write-wins: it stores and
\* returns a value only for a field the session holds no value for, and
\* leaves every captured value as it was.
C16_LastWriteWinsExceptCollect ==
    /\ [](LastWriteWinsByUpdate)
    /\ []((pc = "sessions" /\ call.op = "_collect_user_info") =>
            /\ HoldsAll(call.result)
            /\ \A n \in DOMAIN call.args : Captured(_SESSIONS[call.key], n))
    /\ [][(pc = "sessions" /\ call'.op = "_collect_user_info") =>
            \A n \in DOMAIN call'.args :
                Captured(DictGet(_SESSIONS, call'.key, EmptyDict), n) =>
                    /\ _SESSIONS'[call'.key][n] = _SESSIONS[call'.key][n]
                    /\ n \notin DOMAIN call'.result]_vars

\* C16 witness: a turn found the name Bia for a session that holds the name
\* Ana; nothing was collected and the session still holds Ana.
C16_Witness ==
    /\ pc = "sessions" /\ call.op = "_collect_user_info"
    /\ call.args["name"] = Bia
    /\ call.result = EmptyDict
    /\ _SESSIONS[call.key]["name"] = Ana

(***************************************************************************)
(* Claims about the read accessors.                                        *)
(***************************************************************************)
ReadAccessors == {"get_state", "get_conversation_phase", "should_present_solution",
                  "list_sessions"}

\* C17 as stated: a call of a read accessor leaves the session store as it
\* was, the keys reported by list_sessions included.
C17_ReadAccessorsChangeNothing ==
    [][(pc = "sessions" /\ call'.op \in ReadAccessors) =>
          /\ _SESSIONS' = _SESSIONS
          /\ list_sessions(_SESSIONS') = list_sessions(_SESSIONS)]_vars

(***************************************************************************)
(* Clause runs: _break_by_natural_pauses_only applied to texts of a few    *)
(* words, conjunctions of several kinds and a word with a comma among      *)
(* them, joined by single blanks.                                          *)
(***************************************************************************)
MaxClauseWords == 4
MaxClauseChars == 9

ClauseWords ==
    { <<"a">>, <<"e">>, <<"E">>, <<"q", "u", "e">>, <<"m", "a", "s">>, <<"a", ",">> }

\* the tier of _break_by_natural_pauses_only a text is cut in, and the
\* best_break of that tier
BestBreak(s, maxc) ==
    LET pauseOk == {p \in PausePoints(s) : p <= maxc}
        conj == LastWithin(ConjunctionPoints(s, 1), maxc)
    IN IF Len(s) <= maxc THEN [tier |-> "whole", best_break |-> 0]
       ELSE IF pauseOk # {} THEN [tier |-> "pause", best_break |-> SetMax(pauseOk)]
       ELSE IF conj # 0 THEN [tier |-> "conjunction", best_break |-> conj]
       ELSE [tier |-> "words", best_break |-> 0]

InitClause ==
    /\ pc = "clause"
    /\ \E ws \in SeqsUpTo(ClauseWords, MaxClauseWords) : ws # <<>> /\ text = JoinSpace(ws)
    /\ max_chars \in 1..MaxClauseChars
    /\ min_chars = 1
    /\ units = <<>>
    /\ IdleResp
    /\ IdleTarget
    /\ IdleRegistry
    /\ IdleSession

BreakByNaturalPausesOnly ==
    /\ pc = "clause"
    /\ units' = _break_by_natural_pauses_only(text, max_chars)
    /\ call' = [op |-> "_break_by_natural_pauses_only", key |-> "none",
                result |-> BestBreak(text, max_chars)]
    /\ pc' = "clauses_cut"
    /\ UNCHANGED <<registryVars, text, min_chars, max_chars, respVars, targetVars,
                   _SESSIONS, alone, threads, turn_log>>

NextClause == BreakByNaturalPausesOnly

SpecClause == InitClause /\ [][NextClause]_vars

(***************************************************************************)
(* Claims about the conjunction tier.                                      *)
(***************************************************************************)
\* the positions of all whole-word conjunction occurrences of the text
AllConjunctionPoints(s) == Range(ConjunctionPoints(s, 1))

\* C18 as stated: the conjunction tier is entered only when no pause point
\* is within max_chars, and it cuts at the right-most conjunction occurrence
\* within max_chars, whatever conjunctions the text mixes.
C18_SplitAtRightMostConjunction ==
    (pc = "clauses_cut" /\ call.result.tier = "conjunction") =>
        /\ \A p \in PausePoints(text) : p > max_chars
        /\ call.result.best_break =
              SetMax({p \in AllConjunctionPoints(text) : p <= max_chars})

(***************************************************************************)
(* Claims about validation.                                                *)
(***************************************************************************)
\* re.fullmatch(pattern, value) is not None, for the patterns of the model
ReFullMatch(pattern, value) ==
    CASE pattern = DigitsPattern -> value # <<>> /\ \A i \in 1..Len(value) : IsDigit(value[i])

\* C19 as stated: a value captured for a field that declares a validation
\* pattern, whatever the type of the field, matches the pattern as a whole.
C19_CapturedValueMatchesPattern ==
    (pc = "extracted" /\ error = "none") =>
        \A k \in 1..Len(target_config) :
            (/\ target_config[k].validation_pattern # <<>>
             /\ target_config[k].field_name \in DOMAIN extracted)
                => ReFullMatch(target_config[k].validation_pattern,
                               extracted[target_config[k].field_name])

(***************************************************************************)
(* Validation runs: validate_field applied to each field of a              *)
(* configuration and a value.                                              *)
(***************************************************************************)
\* values handed to validate_field: runs of 9 to 12 digits, formatted phone
\* numbers, and short values for the other field types
ValueSamples ==
    { Repeat(<<"9">>, 9), Repeat(<<"9">>, 10), Repeat(<<"9">>, 11), Repeat(<<"9">>, 12),
      <<>>,
      <<"A">>,
      <<"1">>,
      <<"1", "a">>,
      <<"a", "1">>,
      <<"a", "@", "b", ".", "c", "o">>,
      <<"a", "@", "b">>,
      <<"(", "1", "1", ")", " ", "9", "9", "9", "9", "9", "-", "8", "8", "8", "8">>,
      <<"1", "1", " ", "9", "9", "9", "9", "-", "8", "8", "8", "8">>,
      <<"+", "5", "5", " ", "1", "1", " ", "9", "9", "9", "9", "9", "-", "8", "8", "8", "8">> }

InitValidate ==
    /\ pc = "value"
    /\ target_config \in TargetConfigs
    /\ message \in ValueSamples
    /\ extracted = EmptyDict /\ error = "none"
    /\ user_state = EmptyDict /\ turns = 0 /\ _configs = EmptyDict
    /\ IdleRegistry
    /\ IdleSeg /\ min_chars = 0 /\ max_chars = 0
    /\ IdleResp
    /\ IdleSession

ValidateField ==
    \E k \in 1..Len(target_config) :
        /\ pc = "value"
        /\ call' = [op |-> "validate_field", key |-> target_config[k].field_name,
                    args |-> target_config[k],
                    result |-> validate_field(target_config[k], message)]
        /\ pc' = "validated"
        /\ UNCHANGED <<registryVars, segVars, respVars, targetVars, _SESSIONS, alone, threads, turn_log>>

NextValidate == ValidateField

SpecValidate == InitValidate /\ [][NextValidate]_vars

\* len(re.sub(r'[^\d]', '', value)): the number of digits of the value
DigitCount(value) == Cardinality({i \in 1..Len(value) : IsDigit(value[i])})

\* C20 as stated: for a phone field validate_field returns a result for
\* every value, valid exactly when the value has 10 or 11 digits, and never
\* ends with an exception.
C20_PhoneValidationReturns ==
    (pc = "validated" /\ call.args.field_type = "phone") =>
        /\ call.result \in {"valid", "invalid"}
        /\ call.result = "valid" <=> DigitCount(message) \in {10, 11}

(***************************************************************************)
(* Number fields.                                                          *)
(***************************************************************************)
\* 1-based index of the leftmost occurrence of w in s ignoring case, 0 if none
FirstOccurrence(s, w) ==
    LET at == {i \in 1..(Len(s) - Len(w) + 1) : HasAt(Lower(s), i, Lower(w))}
    IN IF at = {} THEN 0 ELSE SetMin(at)

\* the text that follows the leftmost occurrence of the trigger
TriggerAdjacent(msg, trigger) ==
    Drop(msg, FirstOccurrence(msg, trigger) + Len(trigger) - 1)

\* the first maximal run of digits of s, None when s has no digit
FirstIntegerToken(s) ==
    LET at == {i \in 1..Len(s) : IsDigit(s[i])}
    IN IF at = {} THEN NoneValue
       ELSE Some(SubSeq(s, SetMin(at), DigitsEnd(s, SetMin(at)) - 1))

\* the first trigger of the field, in list order, that the message holds
\* (0: none), as _extract_field_value chooses it
FirstTriggerIn(msg, field) ==
    LET hit == {k \in 1..Len(field.prompt_triggers) :
                   Contains(Lower(msg), Lower(field.prompt_triggers[k]))}
    IN IF hit = {} THEN 0 ELSE SetMin(hit)

\* C21: for a number field whose trigger occurs in the utterance and whose
\* trigger-adjacent text holds an integer token, extract_from_message
\* returns the field with the first integer token of that text as its value.
C21_NumberFieldExtracted ==
    pc = "extracted" =>
        \A k \in 1..Len(target_config) :
            LET field == target_config[k]
                t == FirstTriggerIn(message, field)
            IN (/\ field.field_type = "number"
                /\ t > 0
                /\ FirstIntegerToken(TriggerAdjacent(message, field.prompt_triggers[t])) # NoneValue)
               => /\ field.field_name \in DOMAIN extracted
                  /\ extracted[field.field_name] =
                        FirstIntegerToken(TriggerAdjacent(message, field.prompt_triggers[t]))[1]

(***************************************************************************)
(* Prose runs: process_response on every short text that has no item line  *)
(* (letters, blanks, a sentence end, a pause, an emoji), under a tight     *)
(* configuration, so that texts on both sides of max_chars occur.          *)
(***************************************************************************)
MaxProseLen == 5

ProseAlphabet == {"a", " ", ".", ",", CheckMark}

InitProse ==
    /\ pc = "reply"
    /\ raw_response \in SeqsUpTo(ProseAlphabet, MaxProseLen)
    /\ max_chars \in 2..MaxCharsBound
    /\ min_chars \in 1..max_chars
    /\ formatted = NoResponse
    /\ agent_messages = <<>>
    /\ IdleSeg
    /\ IdleTarget
    /\ IdleRegistry
    /\ IdleSession

NextProse == ProcessResponse

SpecProse == InitProse /\ [][NextProse]_vars

\* the text is classified as prose: the strategy chosen is not "structured"
ClassifiedProse(s, maxc) ==
    _choose_formatting_strategy(_analyze_content_structure(s), maxc, Len(s))
        # "structured"

\* config.use_emojis is False: the emoji characters are removed
WithoutEmoji(s) == SelectSeq(s, LAMBDA c : ~IsEmoji(c))

ProseProcessed ==
    pc = "processed" /\ ClassifiedProse(raw_response, max_chars)

\* C22 as stated: whenever a text is classified as prose, the messages of
\* process_response are exactly the segmentation of the whole text, which
\* for a text no longer than max_chars is the text itself.
C22_ProseIsSegmentationOfText ==
    ProseProcessed =>
        formatted.messages =
            _break_text_intelligently(raw_response, min_chars, max_chars)

\* C22 amended: a prose text longer than max_chars is segmented whole; one
\* no longer than max_chars gives a single message, the text without its
\* emoji characters and without surrounding whitespace (the text itself when
\* it has neither); a blank text gives one empty message.  The words of the
\* messages are the words of the text, emoji apart, in order.
C22_ProseSegmentedOrStripped ==
    ProseProcessed =>
        IF Strip(raw_response) = <<>>
        THEN formatted.messages = << <<>> >>
        ELSE IF Len(raw_response) > max_chars
        THEN /\ formatted.messages =
                    _break_text_intelligently(raw_response, min_chars, max_chars)
             /\ Words(JoinSpace(formatted.messages)) = Words(raw_response)
        ELSE /\ formatted.messages = << Strip(WithoutEmoji(raw_response)) >>
             /\ (/\ Strip(raw_response) = raw_response
                 /\ WithoutEmoji(raw_response) = raw_response)
                => formatted.messages = <<raw_response>>

\* a short prose text with an emoji or surrounding blanks was processed and
\* the message is not the text
C22_Witness ==
    /\ ProseProcessed
    /\ Len(raw_response) <= max_chars
    /\ \E i \in 1..Len(raw_response) : IsEmoji(raw_response[i])
    /\ formatted.messages # <<raw_response>>
    /\ formatted.messages[1] # <<>>

(***************************************************************************)
(* core/conversation_strategy.py: the consultative turn.  A question is    *)
(* the string the code returns; the tags of asked_questions and the        *)
(* entries of recent_consultative_actions are strings taken as atoms.      *)
(***************************************************************************)
finalization_signals ==
    <<<<"j", "á", " ", "e", "s", "c", "o", "l", "h", "i">>, <<"j", "á", " ", "d", "e", "c", "i", "d", "i">>, <<"e", "s", "c", "o", "l", "h", "i", " ", "o">>, <<"q", "u", "e", "r", "o", " ", "o">>, <<"v", "o", "u", " ", "c", "o", "m", " ", "o">>, <<"f", "e", "c", "h", "a", "d", "o">>, <<"o", "k">>, <<"b", "e", "l", "e", "z", "a">>, <<"p", "e", "r", "f", "e", "i", "t", "o">>, <<"j", "á", " ", "m", "e", " ", "e", "x", "p", "l", "i", "c", "o", "u">>, <<"j", "á", " ", "e", "n", "t", "e", "n", "d", "i">>, <<"o", "b", "r", "i", "g", "a", "d", "o">>, <<"o", "b", "r", "i", "g", "a", "d", "a">>>>

plan_mentions ==
    << [name |-> "essencial", patterns |-> <<<<"e", "s", "s", "e", "n", "c", "i", "a", "l">>, <<"b", "á", "s", "i", "c", "o">>, <<"p", "r", "i", "m", "e", "i", "r", "o">>>>],
       [name |-> "profissional", patterns |-> <<<<"p", "r", "o", "f", "i", "s", "s", "i", "o", "n", "a", "l">>, <<"s", "e", "g", "u", "n", "d", "o">>, <<"d", "o", " ", "m", "e", "i", "o">>>>],
       [name |-> "premium", patterns |-> <<<<"p", "r", "e", "m", "i", "u", "m">>, <<"t", "e", "r", "c", "e", "i", "r", "o">>, <<"i", "l", "i", "m", "i", "t", "a", "d", "o">>>>],
       [name |-> "enterprise", patterns |-> <<<<"e", "n", "t", "e", "r", "p", "r", "i", "s", "e">>, <<"q", "u", "a", "r", "t", "o">>, <<"c", "o", "m", "p", "l", "e", "t", "o">>>>] >>

\* state.get("asked_questions", [])
AskedQuestions(state) == DictGet(state, "asked_questions", <<>>)

\* mutant of Ask: the question is returned and its tag is not recorded
Ask_NoRecord(store, k, tag, question) ==
    [store |-> store, result |-> Some(question)]

\* set_state(session_key, asked_questions=asked_questions + [tag]) followed
\* by the return of the question
Ask(store, k, tag, question) ==
    [store |-> set_state(store, k,
                  [asked_questions |-> Some(Append(AskedQuestions(store[k]), tag))]),
     result |-> Some(question)]

\* the question of the positioning phase, chosen by the business type
PositioningQuestion(business_type) ==
    IF Contains(business_type, <<"c", "o", "n", "s", "t", "r", "u", "c", "a", "o">>)
    THEN "Imagina poder ter mais tempo para focar nos orçamentos enquanto um assistente cuida das consultas básicas?"
    ELSE IF Contains(business_type, <<"l", "o", "j", "a">>) \/ Contains(business_type, <<"v", "a", "r", "e", "j", "o">>)
    THEN "Imagina poder focar só nas vendas enquanto um assistente cuida das perguntas básicas?"
    ELSE IF Contains(business_type, <<"c", "l", "i", "n", "i", "c", "a">>)
    THEN "E se você pudesse ter mais tempo para os pacientes, sem se preocupar com agendamentos repetitivos?"
    ELSE IF Contains(business_type, <<"r", "e", "s", "t", "a", "u", "r", "a", "n", "t", "e">>)
    THEN "Como seria poder automatizar pedidos e dúvidas básicas, deixando sua equipe livre para o atendimento?"
    ELSE "Como seria ideal para você: automatizar sem perder o toque pessoal com seus clientes?"

\* the first (tag, question) pair of the list whose guard holds and whose
\* tag is not in asked_questions is asked; None when the branch taken asks
\* nothing
AskFirst(store, k, tag, question) ==
    IF tag \notin Range(AskedQuestions(store[k]))
    THEN Ask(store, k, tag, question)
    ELSE [store |-> store, result |-> NoneValue]

\* generate_consultative_question(session_key, context): the store after
\* the call and the question returned (None: NoneValue)
generate_consultative_question(store, k) ==
    LET r == get_conversation_phase(store, k)
        s1 == get_state(r.store, k)
        state == s1[k]
        asked == Range(AskedQuestions(state))
    IN IF r.result = "discovery"
       THEN IF ~Captured(state, "business_type")
            THEN AskFirst(s1, k, "business_type_asked", "Que tipo de negócio você tem?")
            ELSE IF ~Captured(state, "volume_clients")
            THEN AskFirst(s1, k, "volume_asked",
                          "Quantos clientes você costuma atender por mês?")
            ELSE IF ~Captured(state, "current_channels")
            THEN AskFirst(s1, k, "channels_asked",
                          "Como seus clientes entram em contato com você hoje?")
            ELSE [store |-> s1, result |-> NoneValue]
       ELSE IF r.result = "understanding"
       THEN IF "automation_experience" \notin asked
            THEN Ask(s1, k, "automation_experience",
                     "Você já tentou automatizar alguma parte do atendimento antes?")
            ELSE IF "time_spent" \notin asked
            THEN Ask(s1, k, "time_spent",
                     "Quanto tempo você ou sua equipe gastam respondendo as mesmas perguntas todos os dias?")
            ELSE AskFirst(s1, k, "main_challenge",
                          "Qual é sua maior dificuldade no atendimento atualmente?")
       ELSE AskFirst(s1, k, "solution_interest",
                     PositioningQuestion(DictGet(state, "business_type", <<>>)))

\* the value process_consultative_turn returns, by its parts: the kind of
\* reply ("none": None), the plan named in a closing reply, whether the
\* sentence about the construction business is there, and the question
Reply(kind, plan, praise, question) ==
    [kind |-> kind, plan |-> plan, praise |-> praise, question |-> question]

NoReply == Reply("none", "none", FALSE, NoneValue)

\* the branch taken when the text holds a finalization signal
FinalizationReply(text_lower) ==
    LET chosen == {i \in 1..Len(plan_mentions) : EntryIn(text_lower, plan_mentions[i])}
    IN IF chosen # {}
       THEN Reply("plan_chosen", plan_mentions[SetMin(chosen)].name, FALSE, NoneValue)
       ELSE IF Contains(text_lower, <<"o", "b", "r", "i", "g", "a", "d">>) \/ Contains(text_lower, <<"t", "c", "h", "a", "u">>)
       THEN Reply("farewell", "none", FALSE, NoneValue)
       ELSE Reply("which_plan", "none", FALSE, NoneValue)

\* recent_actions after append("solution_offered") and the cut to the last 5
OfferRecorded(recent_actions) ==
    LET added == Append(recent_actions, "solution_offered")
    IN IF Len(added) > 5 THEN SubSeq(added, Len(added) - 4, Len(added)) ELSE added

\* len(recent_actions) >= 2 and all("solution_offered" in action for action
\* in recent_actions[-2:])
OfferedTwice(recent_actions) ==
    /\ Len(recent_actions) >= 2
    /\ \A i \in (Len(recent_actions) - 1)..Len(recent_actions) :
          recent_actions[i] = "solution_offered"

HasFinalizationSignal(text_) ==
    \E i \in 1..Len(finalization_signals) : Contains(Lower(text_), finalization_signals[i])

\* the end of process_consultative_turn, from should_present_solution on:
\* the offer built by get_personalized_solution, which reads the state, is
\* told by its kind alone
PresentOrNone(store, k, recent_actions) ==
    LET p == should_present_solution(store, k)
    IN IF p.result
       THEN [store |-> set_state(p.store, k,
                          [recent_consultative_actions |-> Some(OfferRecorded(recent_actions))]),
             result |-> Reply("solution_offered", "none", FALSE, NoneValue)]
       ELSE [store |-> p.store, result |-> NoReply]

\* process_consultative_turn from extract_business_info on (lines 351-389)
ContinueConsultative(s1, k, text_, recent_actions) ==
    LET extracted_info == ExtractedInfo(text_, s1[k])
        s2 == extract_business_info(s1, k, text_)
        q == generate_consultative_question(s2, k)
        praise == /\ "business_type" \in DOMAIN extracted_info
                  /\ extracted_info["business_type"] = Some(<<"c", "o", "n", "s", "t", "r", "u", "c", "a", "o">>)
    IN IF DOMAIN extracted_info = {}
       THEN PresentOrNone(s2, k, recent_actions)
       ELSE IF praise \/ q.result # NoneValue
       THEN [store |-> q.store, result |-> Reply("consultative", "none", praise, q.result)]
       ELSE PresentOrNone(q.store, k, recent_actions)

\* mutant of process_consultative_turn: the loop stop (lines 342-349) is
\* left out
process_consultative_turn_NoLoopStop(store, k, text_) ==
    LET s1 == get_state(store, k)
        recent_actions == DictGet(s1[k], "recent_consultative_actions", <<>>)
    IN IF HasFinalizationSignal(text_)
       THEN [store |-> store, result |-> FinalizationReply(Lower(text_))]
       ELSE ContinueConsultative(s1, k, text_, recent_actions)

\* process_consultative_turn(tenant_id, text, session_key): the store after
\* the call and the value returned
process_consultative_turn(store, k, text_) ==
    LET s1 == get_state(store, k)
        recent_actions == DictGet(s1[k], "recent_consultative_actions", <<>>)
    IN IF HasFinalizationSignal(text_)
       THEN [store |-> store, result |-> FinalizationReply(Lower(text_))]
       ELSE IF OfferedTwice(recent_actions)
       THEN [store |-> s1, result |-> NoReply]
       ELSE ContinueConsultative(s1, k, text_, recent_actions)

(***************************************************************************)
(* Consultative runs: one session takes turn after turn, and may be        *)
(* cleared.  turn_log keeps, for the session, what its turns returned      *)
(* since it was last cleared: the questions, the number of offers, and the *)
(* phases it was seen in between turns.                                    *)
(***************************************************************************)
MaxLogLen == 8

ConsultKeys == {"s1"}

ConsultTexts ==
    { <<"L", "o", "j", "a">>,
      <<"z", "a", "p">>,
      <<"d", "e", "m", "o", "r", "a">>,
      <<"u", "n", "s", " ", "5">>,
      <<"o", "l", "a">>,
      <<"l", "o", "j", "a", " ", "u", "n", "s", " ", "5">>,
      <<"l", "o", "c", "a", "d", "o", "r", "a">>,
      <<"o", "k">>,
      <<"q", "u", "e", "r", "o", " ", "o", " ", "p", "r", "e", "m", "i", "u", "m">>,
      <<"o", "b", "r", "i", "g", "a", "d", "o">>,
      <<"l", "o", "j", "a", " ", "u", "n", "s", " ", "5", " ", "z", "a", "p", " ", "d", "e", "m", "o", "r", "a">> }

FreshLog == [questions |-> <<>>, offers |-> 0, phases |-> {"discovery"}]

InitConsult ==
    /\ pc = "consult"
    /\ IdleSeg /\ min_chars = 0 /\ max_chars = 0
    /\ IdleResp
    /\ IdleTarget
    /\ IdleRegistry
    /\ _SESSIONS = EmptyDict
    /\ alone = EmptyDict
    /\ call = IdleCall
    /\ threads = <<>>
    /\ turn_log = [k \in ConsultKeys |-> FreshLog]

ConsultFrame == UNCHANGED <<registryVars, pc, segVars, respVars, targetVars, alone, threads>>

\* the log after a turn that returned reply and left the session in state
Logged(log, reply, state) ==
    [questions |-> IF reply.question = NoneValue THEN log.questions
                   ELSE Append(log.questions, reply.question[1]),
     offers |-> IF reply.kind = "solution_offered" THEN log.offers + 1 ELSE log.offers,
     phases |-> log.phases \cup {PhaseOf(state)}]

ProcessConsultativeTurn ==
    \E k \in ConsultKeys, text_ \in ConsultTexts :
        /\ pc = "consult"
        /\ Len(turn_log[k].questions) < MaxLogLen
        /\ turn_log[k].offers < MaxLogLen
        /\ \E r \in {process_consultative_turn(_SESSIONS, k, text_)} :
              /\ _SESSIONS' = r.store
              /\ call' = [op |-> "process_consultative_turn", key |-> k, args |-> text_,
                          result |-> r.result,
                          before |-> DictGet(_SESSIONS, k, EmptyDict)]
              /\ turn_log' = [turn_log EXCEPT
                                 ![k] = Logged(@, r.result, DictGet(r.store, k, EmptyDict))]
        /\ ConsultFrame

ClearConsultSession ==
    \E k \in ConsultKeys :
        /\ pc = "consult"
        /\ _SESSIONS' = clear_session(_SESSIONS, k)
        /\ call' = [op |-> "clear_session", key |-> k, args |-> <<>>, result |-> NoReply,
                    before |-> DictGet(_SESSIONS, k, EmptyDict)]
        /\ turn_log' = [turn_log EXCEPT ![k] = FreshLog]
        /\ ConsultFrame

NextConsult == ProcessConsultativeTurn \/ ClearConsultSession

SpecConsult == InitConsult /\ [][NextConsult]_vars

(***************************************************************************)
(* Claims about the consultative turn.                                     *)
(***************************************************************************)
\* the dict of the session, empty when the store has no such key
ConsultState(k) == DictGet(_SESSIONS, k, EmptyDict)

TurnTaken(k) ==
    pc = "consult" /\ call.op = "process_consultative_turn" /\ call.key = k

\* C23: phases are not sequential in time: a session in discovery before a
\* turn whose utterance brings the score from below 2 to 4 or more is in
\* positioning after that turn, and was never seen in understanding.
C23_DiscoveryJumpsToPositioning ==
    \A k \in ConsultKeys :
        (/\ TurnTaken(k)
         /\ PhaseOf(call.before) = "discovery"
         /\ business_info_score(ConsultState(k)) >= 4)
        => /\ PhaseOf(ConsultState(k)) = "positioning"
           /\ "understanding" \notin turn_log[k].phases

\* a turn took a session from discovery (score below 2) to positioning
C23_Witness ==
    \E k \in ConsultKeys :
        /\ TurnTaken(k)
        /\ PhaseOf(call.before) = "discovery"
        /\ business_info_score(call.before) < 2
        /\ business_info_score(ConsultState(k)) >= 4
        /\ PhaseOf(ConsultState(k)) = "positioning"
        /\ turn_log[k].phases = {"discovery", "positioning"}

\* no element of the sequence occurs twice
NoRepeat(seq) == \A i, j \in 1..Len(seq) : seq[i] = seq[j] => i = j

IsPrefix(a, b) == Len(a) <= Len(b) /\ SubSeq(b, 1, Len(a)) = a

\* C24: within one session, between clear_session calls, no consultative
\* question is returned twice: a turn that returns a question finds its tag
\* absent from asked_questions and records it, a turn that returns none
\* leaves asked_questions alone, and asked_questions only grows.
C24_NoQuestionAskedTwice ==
    \A k \in ConsultKeys :
        /\ pc = "consult" => NoRepeat(turn_log[k].questions)
        /\ TurnTaken(k) =>
              LET before == AskedQuestions(call.before)
                  after == AskedQuestions(ConsultState(k))
              IN /\ IsPrefix(before, after)
                 /\ NoRepeat(after)
                 /\ IF call.result.question = NoneValue
                    THEN after = before
                    ELSE /\ Len(after) = Len(before) + 1
                         /\ after[Len(after)] \notin Range(before)

\* a session that was asked the questions of the three phases, each once
C24_Witness ==
    \E k \in ConsultKeys :
        /\ TurnTaken(k)
        /\ call.result.question # NoneValue
        /\ Len(turn_log[k].questions) >= 3
        /\ Len(AskedQuestions(ConsultState(k))) = Len(turn_log[k].questions)
        /\ turn_log[k].phases = {"discovery", "understanding", "positioning"}

\* state.get("recent_consultative_actions", [])
RecentActions(state) == DictGet(state, "recent_consultative_actions", <<>>)

\* C25: within one session the solution offer is returned at most twice:
\* once the last two recorded actions are offers, a later turn without a
\* finalization signal returns None and leaves the session state as it was
\* (nothing is extracted), and recent_consultative_actions never holds more
\* than 5 entries.
C25_SolutionOfferedAtMostTwice ==
    \A k \in ConsultKeys :
        /\ pc = "consult" =>
              /\ turn_log[k].offers <= 2
              /\ Len(RecentActions(ConsultState(k))) <= 5
        /\ (/\ TurnTaken(k)
            /\ OfferedTwice(RecentActions(call.before))
            /\ ~HasFinalizationSignal(call.args))
           => /\ call.result = NoReply
              /\ ConsultState(k) = call.before

\* after two offers, a turn whose text names a business returned None and
\* changed nothing
C25_Witness ==
    \E k \in ConsultKeys :
        /\ TurnTaken(k)
        /\ turn_log[k].offers = 2
        /\ OfferedTwice(RecentActions(call.before))
        /\ DOMAIN ExtractedInfo(call.args, call.before) # {}
        /\ call.result = NoReply
        /\ ConsultState(k) = call.before

PhaseRank(phase) ==
    IF phase = "discovery" THEN 1 ELSE IF phase = "understanding" THEN 2 ELSE 3

\* C27: within one session and absent clear_session the phase never
\* regresses: the score after a turn is at least the score before it, a
\* session seen in understanding is not in discovery later, and one seen in
\* positioning stays in positioning.
C27_PhaseNeverRegresses ==
    \A k \in ConsultKeys :
        /\ TurnTaken(k) =>
              /\ business_info_score(ConsultState(k)) >= business_info_score(call.before)
              /\ PhaseRank(PhaseOf(ConsultState(k))) >= PhaseRank(PhaseOf(call.before))
        /\ pc = "consult" =>
              /\ "understanding" \in turn_log[k].phases
                    => PhaseOf(ConsultState(k)) # "discovery"
              /\ "positioning" \in turn_log[k].phases
                    => PhaseOf(ConsultState(k)) = "positioning"

\* a session in positioning took a turn that named a business again (the
\* business type was written again) and is still in positioning
C27_Witness ==
    \E k \in ConsultKeys :
        /\ TurnTaken(k)
        /\ PhaseOf(call.before) = "positioning"
        /\ "business_type" \in DOMAIN ExtractedInfo(call.args, call.before)
        /\ ConsultState(k)["business_type"] # call.before["business_type"]
        /\ PhaseOf(ConsultState(k)) = "positioning"

(***************************************************************************)
(* core/agent.py: handle_turn.  A message of the history is a record with  *)
(* its role and its content.  The agent is that of the default tenant:     *)
(* agent_name "Timmy", business_name "nossa empresa", no workflow.         *)
(***************************************************************************)
\* any(word in text for word in words)
AnyIn(text_, words) == \E i \in 1..Len(words) : Contains(text_, words[i])

\* TimmyAgent._analyze_intent
_analyze_intent(text_, conversation_history) ==
    LET text_lower == Lower(text_)
        is_truly_first ==
            \A i \in 1..Len(conversation_history) : conversation_history[i].role # "user"
    IN IF is_truly_first /\ AnyIn(text_lower, <<<<"o", "l", "á">>, <<"o", "i">>, <<"b", "o", "m", " ", "d", "i", "a">>, <<"b", "o", "a", " ", "t", "a", "r", "d", "e">>, <<"b", "o", "a", " ", "n", "o", "i", "t", "e">>>>)
       THEN "first_greeting"
       ELSE IF AnyIn(text_lower, <<<<"o", "b", "r", "i", "g", "a", "d", "o">>, <<"o", "b", "r", "i", "g", "a", "d", "a">>, <<"v", "a", "l", "e", "u">>, <<"t", "c", "h", "a", "u">>, <<"a", "t", "é", " ", "l", "o", "g", "o">>>>)
       THEN "farewell"
       ELSE IF AnyIn(text_lower, <<<<"a", "j", "u", "d", "a">>, <<"h", "e", "l", "p">>, <<"c", "o", "m", "o">>, <<"o", " ", "q", "u", "e">>, <<"q", "u", "e", "m">>>>)
       THEN "help_request"
       ELSE IF AnyIn(text_lower, <<<<"p", "r", "e", "ç", "o">>, <<"v", "a", "l", "o", "r">>, <<"q", "u", "a", "n", "t", "o", " ", "c", "u", "s", "t", "a">>, <<"i", "n", "v", "e", "s", "t", "i", "m", "e", "n", "t", "o">>>>)
       THEN "pricing"
       ELSE IF AnyIn(text_lower, <<<<"c", "o", "n", "t", "a", "t", "o">>, <<"t", "e", "l", "e", "f", "o", "n", "e">>, <<"e", "m", "a", "i", "l">>, <<"e", "n", "d", "e", "r", "e", "ç", "o">>>>)
       THEN "contact_info"
       ELSE "general"

\* TimmyAgent._check_if_already_introduced
_check_if_already_introduced(conversation_history) ==
    \E i \in 1..Len(conversation_history) :
        /\ conversation_history[i].role = "assistant"
        /\ AnyIn(Lower(conversation_history[i].content),
                 <<<<"s", "o", "u">>, <<"e", "u", " ", "s", "o", "u">>, <<"a", "s", "s", "i", "s", "t", "e", "n", "t", "e">>>>)

\* TimmyAgent._should_send_greeting
_should_send_greeting(conversation_history) ==
    IF conversation_history = <<>> THEN TRUE
    ELSE ~_check_if_already_introduced(conversation_history)

\* the text of the greeting for the hour of the day and the intent
GreetingText(hour, intent) ==
    (IF 5 <= hour /\ hour < 12 THEN <<"B", "o", "m", " ", "d", "i", "a">>
     ELSE IF hour < 18 THEN <<"B", "o", "a", " ", "t", "a", "r", "d", "e">> ELSE <<"B", "o", "a", " ", "n", "o", "i", "t", "e">>)
    \o <<"!", " ", "E", "u", " ", "s", "o", "u", " ", "T", "i", "m", "m", "y", ",", " ", "a", "s", "s", "i", "s", "t", "e", "n", "t", "e", " ", "d", "e", " ", "n", "o", "s", "s", "a", " ", "e", "m", "p", "r", "e", "s", "a", ".", " ">>
    \o (IF intent = "first_greeting" THEN <<"C", "o", "m", "o", " ", "p", "o", "s", "s", "o", " ", "a", "j", "u", "d", "a", "r", " ", "v", "o", "c", "ê", " ", "h", "o", "j", "e", "?">>
        ELSE IF intent = "help_request"
        THEN <<"C", "l", "a", "r", "o", "!", " ", "E", "s", "t", "o", "u", " ", "a", "q", "u", "i", " ", "p", "a", "r", "a", " ", "t", "e", " ", "a", "j", "u", "d", "a", "r", ".", " ", "O", " ", "q", "u", "e", " ", "v", "o", "c", "ê", " ", "g", "o", "s", "t", "a", "r", "i", "a", " ", "d", "e", " ", "s", "a", "b", "e", "r", "?">>
        ELSE <<"V", "i", " ", "q", "u", "e", " ", "v", "o", "c", "ê", " ", "q", "u", "e", "r", " ", "s", "a", "b", "e", "r", " ", "s", "o", "b", "r", "e", " ", "a", "l", "g", "o", " ", "e", "s", "p", "e", "c", "í", "f", "i", "c", "o", ".", " ", "V", "o", "u", " ", "t", "e", " ", "a", "j", "u", "d", "a", "r", "!">>)

\* TimmyAgent._handle_first_interaction: the messages of the greeting, none
\* when no greeting is due
_handle_first_interaction(text_, conversation_history, hour) ==
    IF ~_should_send_greeting(conversation_history) THEN <<>>
    ELSE micro_responses(GreetingText(hour, _analyze_intent(text_, conversation_history)),
                         DefaultMinChars, DefaultMaxChars)

\* ConversationReviewer.get_full_conversation_history: the rows of the
\* session in the conversations file, [] when get_session_messages raises
get_full_conversation_history(rows) ==
    IF CallRaises(get_session_messages_parameters, get_session_messages_arguments) = "none"
    THEN rows ELSE <<>>

\* TimmyAgent._save_message: the rows of the session after the call; the
\* row is written only if the call of save_message goes through and the
\* conversations file is writable
SavedRows(rows, role, contents, writable) ==
    IF CallRaises(save_message_parameters, save_message_arguments) = "none" /\ writable
    THEN rows \o [i \in 1..Len(contents) |-> [role |-> role, content |-> contents[i]]]
    ELSE rows

\* handle_turn from step 5.5 on: the consultative strategy, then the
\* standard flow; the reply of the LLM in the last step is not represented
AfterGreeting(c, rows1) ==
    IF c.result # NoReply
    THEN [store |-> c.store, rows |-> rows1, step |-> "consultative", messages |-> <<>>]
    ELSE [store |-> c.store, rows |-> rows1, step |-> "contextual", messages |-> <<>>]

\* handle_turn from step 5 on: the greeting is returned when there is one
FirstInteractionOrTurn(s1, rows1, k, text_, first_interaction, writable) ==
    IF first_interaction # <<>>
    THEN [store |-> s1, rows |-> SavedRows(rows1, "assistant", first_interaction, writable),
          step |-> "greeting", messages |-> first_interaction]
    ELSE AfterGreeting(process_consultative_turn(s1, k, text_), rows1)

\* handle_turn from step 2 on, the message of the user saved
HistoryThenTurn(s1, rows1, k, text_, hour, writable) ==
    FirstInteractionOrTurn(s1, rows1, k, text_,
        _handle_first_interaction(text_, get_full_conversation_history(rows1), hour), writable)

\* handle_turn(tenant_id, message) on a session whose rows in the
\* conversations file are rows, at the given hour, the file writable or
\* not: the store and the rows after the call, the step that answered
\* (greeting, consultative, contextual) and the messages of a greeting
handle_turn(store, rows, k, text_, hour, writable) ==
    HistoryThenTurn(get_state(store, k), SavedRows(rows, "user", <<text_>>, writable),
                    k, text_, hour, writable)

(***************************************************************************)
(* Agent runs: the sessions take turns through handle_turn, at any hour,   *)
(* the conversations file writable or not during a turn.  turn_log keeps,  *)
(* for each session, whether the file was writable in each of its turns;   *)
(* alone holds the rows of each session in the conversations file, which   *)
(* starts empty.                                                           *)
(***************************************************************************)
MaxAgentTurns == 2

Hours == {0, 5, 18}

AgentTexts ==
    { <<"o", "i">>,
      <<"q", "u", "a", "n", "t", "o", " ", "c", "u", "s", "t", "a">>,
      <<"a", "j", "u", "d", "a">> }

InitAgent ==
    /\ pc = "agent"
    /\ IdleSeg /\ min_chars = 0 /\ max_chars = 0
    /\ IdleResp
    /\ IdleTarget
    /\ IdleRegistry
    /\ _SESSIONS = EmptyDict
    /\ alone = [k \in SessionKeys |-> <<>>]
    /\ call = IdleCall
    /\ threads = <<>>
    /\ turn_log = [k \in SessionKeys |-> <<>>]

HandleTurn ==
    \E k \in SessionKeys, text_ \in AgentTexts, hour \in Hours, writable \in BOOLEAN :
        /\ pc = "agent"
        /\ Len(turn_log[k]) < MaxAgentTurns
        /\ \E r \in {handle_turn(_SESSIONS, alone[k], k, text_, hour, writable)} :
              /\ _SESSIONS' = r.store
              /\ alone' = [alone EXCEPT ![k] = r.rows]
              /\ call' = [op |-> "handle_turn", key |-> k, args |-> text_,
                          result |-> [step |-> r.step, messages |-> r.messages]]
        /\ turn_log' = [turn_log EXCEPT ![k] = Append(@, writable)]
        /\ UNCHANGED <<registryVars, pc, segVars, respVars, targetVars, threads>>

NextAgent == HandleTurn

SpecAgent == InitAgent /\ [][NextAgent]_vars

\* The conversations file was writable in every turn the session took
PersistenceSucceeds(k) == \A i \in 1..Len(turn_log[k]) : turn_log[k][i]

\* C26: as long as the conversations file is writable, handle_turn emits the
\* self-introduction greeting exactly on the first turn of a session: the
\* first turn returns only the greeting and leaves the session state empty
\* (no strategy, collection or LLM step ran), and no later turn of the
\* session returns a greeting.
C26_GreetingExactlyOnFirstTurn ==
    (pc = "agent" /\ call.op = "handle_turn" /\ PersistenceSucceeds(call.key)) =>
        /\ call.result.step = "greeting" <=> Len(turn_log[call.key]) = 1
        /\ Len(turn_log[call.key]) = 1 => _SESSIONS[call.key] = EmptyDict

(***************************************************************************)
(* Parser runs: a reply of up to MaxLines lines is parsed by               *)
(* _parse_structured_content, formatted by _apply_structured_formatting or *)
(* processed by process_response, under the default ResponseConfig.  call  *)
(* holds the parse.                                                        *)
(***************************************************************************)

\* the line shapes of the response runs and a numbered line without a colon
ParseLineSamples == LineSamples \cup { <<"1", ".", " ", "x">> }

InitParse ==
    /\ pc = "reply"
    /\ raw_response \in {JoinLines(ls) : ls \in SeqsUpTo(ParseLineSamples, MaxLines)}
    /\ min_chars = ResponseConfigMinChars
    /\ max_chars = ResponseConfigMaxChars
    /\ formatted = NoResponse
    /\ agent_messages = <<>>
    /\ IdleSeg
    /\ IdleTarget
    /\ IdleRegistry
    /\ IdleSession

ParseStructuredContent ==
    /\ pc = "reply"
    /\ call' = [op |-> "_parse_structured_content", args |-> raw_response,
                result |-> _parse_structured_content(raw_response)]
    /\ pc' = "parsed"
    /\ UNCHANGED <<registryVars, _SESSIONS, alone, threads, turn_log, segVars, respVars, targetVars>>

ApplyStructuredFormatting ==
    /\ pc = "reply"
    /\ formatted' = _apply_structured_formatting(raw_response, min_chars, max_chars)
    /\ pc' = "structured_formatted"
    /\ UNCHANGED <<registryVars, sessionVars, segVars, raw_response, agent_messages, targetVars>>

NextParse == ParseStructuredContent \/ ApplyStructuredFormatting \/ ProcessResponse

SpecParse == InitParse /\ [][NextParse]_vars

\* the lines of a text the line loop looks at: stripped, blank ones left out
ContentLines(s) ==
    SelectSeq([i \in 1..Len(SplitLines(Strip(s))) |-> Strip(SplitLines(Strip(s))[i])],
              LAMBDA l : l # <<>>)

\* the match of a line that opens an item
ItemMatch(line) ==
    FirstMatch(numbered_match(line), simple_numbered_match(line),
               title_match(line), bullet_match(line)).m

\* the indexes of the lines that open an item, in order
ItemLineIndexes(lines) ==
    SelectSeq([i \in 1..Len(lines) |-> i], LAMBDA i : ItemMatch(lines[i]).ok)

\* details followed by the given lines, joined by single blanks
RECURSIVE DetailsWith(_, _)
DetailsWith(details, lines) ==
    IF lines = <<>> THEN details
    ELSE DetailsWith(IF details # <<>> THEN details \o <<" ">> \o lines[1] ELSE lines[1],
                     Tail(lines))

\* the item of the n-th opening line holds the details of that line and
\* every line up to the next opening line
ItemHoldsItsLines(lines, opens, items, n) ==
    items[n].details =
        DetailsWith(ItemMatch(lines[opens[n]]).details,
                    SubSeq(lines, opens[n] + 1,
                           IF n < Len(opens) THEN opens[n + 1] - 1 ELSE Len(lines)))

ItemsHoldLaterLines(lines, opens, items) ==
    /\ Len(items) = Len(opens)
    /\ \A n \in 1..Len(opens) : ItemHoldsItsLines(lines, opens, items, n)

\* C28: for every text the outro of _parse_structured_content is empty:
\* each line after the first item line that opens no item is appended to the
\* details of the item opened last, and the messages of the structured
\* formatting end with the last item, closing sentence included.
C28_OutroAlwaysEmpty ==
    /\ (pc = "parsed" /\ call.op = "_parse_structured_content") =>
          /\ call.result.outro = <<>>
          /\ ItemsHoldLaterLines(ContentLines(raw_response),
                                 ItemLineIndexes(ContentLines(raw_response)),
                                 call.result.items)
    /\ pc = "structured_formatted" =>
          \A p \in {_parse_structured_content(raw_response)} :
              p.items # <<>> =>
                  formatted.messages[Len(formatted.messages)]
                      = _format_single_item(p.items[Len(p.items)])

\* a closing sentence follows the last item line of the parsed text
C28_Witness ==
    /\ pc = "parsed"
    /\ call.op = "_parse_structured_content"
    /\ \E lines \in {ContentLines(raw_response)} :
          /\ Len(lines) >= 2
          /\ ItemMatch(lines[1]).ok
          /\ ~ItemMatch(lines[Len(lines)]).ok
          /\ call.result.items[Len(call.result.items)].details
                 = DetailsWith(ItemMatch(lines[1]).details, Tail(lines))
    /\ call.result.outro = <<>>

\* C29: whenever process_response selects the structured formatting, the
\* number of items _parse_structured_content returns equals the item_count
\* of _analyze_content_structure and is at least 1.
C29_ClassifierAndParserAgree ==
    (pc = "processed" /\ formatted.formatting_applied = "structured") =>
        \A n \in {Len(_parse_structured_content(raw_response).items)} :
            /\ n = _analyze_content_structure(raw_response).item_count
            /\ n >= 1

(***************************************************************************)
(* core/extensions/registry.py: ComponentRegistry.                         *)
(***************************************************************************)

\* ComponentType.value
value(component_type) ==
    CASE component_type = "STRATEGY" -> <<"s", "t", "r", "a", "t", "e", "g", "y">>
      [] component_type = "FORMATTER" -> <<"f", "o", "r", "m", "a", "t", "t", "e", "r">>
      [] component_type = "WORKFLOW" -> <<"w", "o", "r", "k", "f", "l", "o", "w">>
      [] component_type = "DATABASE" -> <<"d", "a", "t", "a", "b", "a", "s", "e">>
      [] OTHER -> <<"p", "r", "o", "c", "e", "s", "s", "o", "r">>

\* f"{tenant_id}_{component_type.value}_{name}"
component_key(tenant_id, component_type, name) ==
    tenant_id \o <<"_">> \o value(component_type) \o <<"_">> \o name

\* list.remove(x): the list without the first occurrence of x
ListRemove(list, x) ==
    LET i == SetMin({j \in 1..Len(list) : list[j] = x})
    IN SubSeq(list, 1, i - 1) \o SubSeq(list, i + 1, Len(list))

_update_tenant_index(tenant_components, tenant_id, key) ==
    IF key \in Range(DictGet(tenant_components, tenant_id, <<>>))
    THEN tenant_components
    ELSE DictSet(tenant_components, tenant_id,
                 Append(DictGet(tenant_components, tenant_id, <<>>), key))

_update_type_index(type_components, component_type, key) ==
    IF key \in Range(type_components[component_type]) THEN type_components
    ELSE [type_components EXCEPT ![component_type] = Append(@, key)]

_remove_from_tenant_index(tenant_components, tenant_id, key) ==
    IF tenant_id \in DOMAIN tenant_components /\ key \in Range(tenant_components[tenant_id])
    THEN IF ListRemove(tenant_components[tenant_id], key) = <<>>
         THEN DictPop(tenant_components, tenant_id)
         ELSE DictSet(tenant_components, tenant_id,
                      ListRemove(tenant_components[tenant_id], key))
    ELSE tenant_components

_remove_from_type_index(type_components, component_type, key) ==
    IF key \in Range(type_components[component_type])
    THEN [type_components EXCEPT ![component_type] = ListRemove(@, key)]
    ELSE type_components

\* a registry: the three dicts of a ComponentRegistry
Registry(components, tenant_components, type_components) ==
    [_components |-> components, _tenant_components |-> tenant_components,
     _type_components |-> type_components]

\* register_component(component_info, override): the registry after the
\* call and the value returned (no hook is registered)
register_component(reg, component_info, override) ==
    LET key == component_key(component_info.tenant_id, component_info.component_type,
                             component_info.name)
    IN IF key \in DOMAIN reg._components /\ ~override
       THEN [registry |-> reg, result |-> FALSE]
       ELSE [registry |->
                Registry(DictSet(reg._components, key, component_info),
                         _update_tenant_index(reg._tenant_components,
                                              component_info.tenant_id, key),
                         _update_type_index(reg._type_components,
                                            component_info.component_type, key)),
             result |-> TRUE]

\* unregister_component(tenant_id, component_type, name)
unregister_component(reg, tenant_id, component_type, name) ==
    LET key == component_key(tenant_id, component_type, name)
    IN IF key \notin DOMAIN reg._components
       THEN [registry |-> reg, result |-> FALSE]
       ELSE [registry |->
                Registry(DictPop(reg._components, key),
                         _remove_from_tenant_index(reg._tenant_components, tenant_id, key),
                         _remove_from_type_index(reg._type_components, component_type, key)),
             result |-> TRUE]

\* the loop of clear_tenant_components over the copied key list, from the
\* k-th key on: the components, the type index and the count of removals
RECURSIVE ClearKeys(_, _, _, _, _)
ClearKeys(keys, k, components, type_components, removed_count) ==
    IF k > Len(keys)
    THEN [components |-> components, type_components |-> type_components,
          removed_count |-> removed_count]
    ELSE IF keys[k] \in DOMAIN components
    THEN ClearKeys(keys, k + 1, DictPop(components, keys[k]),
                   _remove_from_type_index(type_components,
                                           components[keys[k]].component_type, keys[k]),
                   removed_count + 1)
    ELSE ClearKeys(keys, k + 1, components, type_components, removed_count)

ClearedRegistry(c, tenant_components, tenant_id) ==
    [registry |-> Registry(c.components, DictPop(tenant_components, tenant_id),
                           c.type_components),
     result |-> c.removed_count]

\* clear_tenant_components(tenant_id)
clear_tenant_components(reg, tenant_id) ==
    IF tenant_id \notin DOMAIN reg._tenant_components
    THEN [registry |-> reg, result |-> 0]
    ELSE ClearedRegistry(ClearKeys(reg._tenant_components[tenant_id], 1,
                                   reg._components, reg._type_components, 0),
                         reg._tenant_components, tenant_id)

(***************************************************************************)
(* Registry runs: components of two tenants are registered (with and       *)
(* without override), unregistered and cleared in any order.               *)
(***************************************************************************)
\* at most MaxComponents components are registered at a time
MaxComponents == 2

RegistryTenants == { <<"a">>, <<"a", "_", "s", "t", "r", "a", "t", "e", "g", "y">> }

RegistryTypes == {"STRATEGY", "FORMATTER"}

RegistryNames == { <<"x">>, <<"f", "o", "r", "m", "a", "t", "t", "e", "r", "_", "x">> }

\* ComponentInfo(name, component_type, tenant_id, priority)
ComponentInfos ==
    [name : RegistryNames, component_type : RegistryTypes, tenant_id : RegistryTenants,
     priority : {1}]

InitRegistry ==
    /\ pc = "registry"
    /\ IdleSeg /\ min_chars = 0 /\ max_chars = 0
    /\ IdleResp
    /\ IdleTarget
    /\ IdleSession
    /\ IdleRegistry

TheRegistry == Registry(_components, _tenant_components, _type_components)

RegistryBecomes(r, op, args) ==
    /\ _components' = r.registry._components
    /\ _tenant_components' = r.registry._tenant_components
    /\ _type_components' = r.registry._type_components
    /\ call' = [op |-> op, key |-> args, result |-> r.result]
    /\ UNCHANGED <<pc, segVars, respVars, targetVars, _SESSIONS, alone, threads, turn_log>>

RegisterComponent ==
    \E component_info \in ComponentInfos, override \in BOOLEAN :
        /\ pc = "registry"
        /\ \/ Cardinality(DOMAIN _components) < MaxComponents
           \/ component_key(component_info.tenant_id, component_info.component_type,
                            component_info.name) \in DOMAIN _components
        /\ RegistryBecomes(register_component(TheRegistry, component_info, override),
                           "register_component", <<component_info, override>>)

UnregisterComponent ==
    \E tenant_id \in RegistryTenants, component_type \in RegistryTypes,
       name \in RegistryNames :
        /\ pc = "registry"
        /\ RegistryBecomes(unregister_component(TheRegistry, tenant_id, component_type, name),
                           "unregister_component", <<tenant_id, component_type, name>>)

ClearTenantComponents ==
    \E tenant_id \in RegistryTenants :
        /\ pc = "registry"
        /\ RegistryBecomes(clear_tenant_components(TheRegistry, tenant_id),
                           "clear_tenant_components", tenant_id)

NextRegistry == RegisterComponent \/ UnregisterComponent \/ ClearTenantComponents

SpecRegistry == InitRegistry /\ [][NextRegistry]_vars

\* the number of times a key is in a list
Occurrences(list, key) == Cardinality({i \in 1..Len(list) : list[i] = key})

\* each registered component is listed exactly once under its own tenant and
\* exactly once under its own type
ListedOnce ==
    \A key \in DOMAIN _components :
        /\ Occurrences(DictGet(_tenant_components, _components[key].tenant_id, <<>>), key) = 1
        /\ Occurrences(_type_components[_components[key].component_type], key) = 1

\* no index refers to a component that is not registered
NoDanglingKey ==
    /\ \A tenant_id \in DOMAIN _tenant_components :
          Range(_tenant_components[tenant_id]) \subseteq DOMAIN _components
    /\ \A component_type \in ComponentType :
          Range(_type_components[component_type]) \subseteq DOMAIN _components

\* C30: after any sequence of register_component, unregister_component and
\* clear_tenant_components the indexes are consistent with the component
\* table: each registered component is listed exactly once under its tenant
\* and its type, no index refers to a removed component, and a
\* register_component call rejected as duplicate leaves the registry
\* unchanged.
C30_IndexesConsistent ==
    /\ [](pc = "registry" => ListedOnce /\ NoDanglingKey)
    /\ [][(call'.op = "register_component" /\ call'.result = FALSE)
             => UNCHANGED registryVars]_vars

====
